---- MODULE Spec2Model ----
(***************************************************************************)
(* A model of the VHS analysis pipeline: the segmenter of preprocess.py    *)
(* (prepare_video, chunk_video), the ledger of progress.py                 *)
(* (ProgressTracker), the retry wrapper with_retry, the merge of           *)
(* analyze.py (merge_chunk_results) and the orchestrator of                *)
(* vhs_analyzer.py.                                                        *)
(*                                                                         *)
(* Durations are whole seconds.  Unit names and error texts are numbered:  *)
(* name i stands for the i-th distinct unit name, error i for the i-th     *)
(* distinct exception text; 0 stands for the empty error text "".          *)
(***************************************************************************)
EXTENDS Integers, Sequences, FiniteSets, TLC

\* ---------------------------------------------------------------- config.py
CHUNK_DURATION_S == 50 * 60
CHUNK_OVERLAP_S == 30
MAX_RETRIES == 3
RETRY_BACKOFF == <<30, 90, 270>>

\* ------------------------------------------------------------------- bounds
\* Longest measured duration, in seconds.
MaxDuration == 9000
\* chunk_video's loop is followed for at most this many iterations.
MaxChunks == 6
\* Distinct unit names and distinct error texts.
MaxNames == 2
MaxErrors == 2
\* Distinct values an operation returns.
MaxResults == 2

\* Durations around every multiple of the overlap: all chunk boundaries are
\* multiples of CHUNK_OVERLAP_S, so these are the durations at, just below
\* and just above every boundary.
Durations ==
    {d \in 1..MaxDuration :
        d % CHUNK_OVERLAP_S \in {0, 1, CHUNK_OVERLAP_S - 1}}
Names == 1..MaxNames
Errors == 1..MaxErrors
Results == 1..MaxResults
\* The attempt counts a caller of mark_failed reports: the least and the most.
AttemptCounts == {1, MAX_RETRIES}

VARIABLES
    \* preprocess.py
    duration,       \* what get_duration measures for the video
    seg_pc,         \* where prepare_video is: start, chunking, returned, raised
    start,          \* chunk_video's local start
    chunks,         \* chunk_video's local list chunks
    segments,       \* the list prepare_video returns
    chunk_files,    \* indexes idx whose chunk file exists on disk
    proxy_files,    \* offsets whose proxy file exists on disk
    \* progress.py: ProgressTracker
    processed,      \* tracker._data["processed"]
    failed,         \* tracker._data["failed"]
    disk,           \* content of .progress.json, "absent" when there is none
    last,           \* the last ledger operation and what it found (history)
    recent,         \* per name, the <<error, attempts>> of the last
                    \* mark_failed not followed by a mark_done (history)
    \* progress.py: with_retry
    r_pc,           \* idle, running, returned
    r_name,         \* video_name
    attempt,        \* the loop variable attempt
    last_error,     \* the local last_error
    r_result,       \* what with_retry returned: <<"result", v>> or
                    \* <<"None">>; <<>> while it has not returned
    r_log,          \* outcome of each call of fn, in order (history)
    sleeps,         \* durations passed to time.sleep, in order (history)
    r_marked_failed, \* how often this call invoked mark_failed (history)
    \* analyze.py: merge_chunk_results
    chunk_results,  \* the argument chunk_results
    merged,         \* <<the returned dict>>, <<>> before the call
    \* vhs_analyzer.py
    all_analyses,   \* video name -> primary analysis
    all_blind,      \* video name -> secondary (blind) analysis
    before,         \* <<all_analyses as enrich_with_blind received it>>,
                    \* <<>> before the call (history)
    \* vhs_analyzer.py: main and the phases
    args,           \* the command line: phase, blind, no_proxy, retry_failed,
                    \* dry_run, and what the source path holds
    GEMINI_API_KEY, \* config.GEMINI_API_KEY is not empty
    long_videos,    \* the videos longer than CHUNK_DURATION_S
    tree,           \* what the source directory holds: "plain", two videos
                    \* of different stems; "twins", two videos of one
                    \* stem; "prefixed", a video and one whose file name is
                    \* the name of the first one's pre-analysis unit
    pc,             \* idle (no run yet, or the work directory was changed
                    \* since), the stage main is in, hung, or exited
    step,           \* where the current loop iteration is: call, store, mark
    exit_code,      \* how the run ended: "0", "1" (sys.exit(1)),
                    \* "uncaught", "killed";
                    \* "none" while it runs and while idle
    videos,         \* the list videos of main
    queue,          \* the videos the current phase's loop has yet to take
    result,         \* the local result of the current iteration
    corpus,         \* the keys of corpus_context.json
    blind_files,    \* stem -> content of blind_analysis/<stem>.json
    raw_json,       \* stem -> content of raw_json/<stem>.json
    synthesis_file, \* SYNTHESE_GOLDBERG.md exists
    invoked,        \* the unit operations this run has invoked (history)
    prepared,       \* the calls of get_duration by estimate_cost, of
                    \* extract_sample and of prepare_video this run has
                    \* made, as <<phase, video>> (history)
    at_start,       \* the raw results and the videos marked done that
                    \* this run found (history)
    rerun,          \* this run repeats, with the same flags, a run that
                    \* ended with exit code 0 and no failed unit (history)
    run_failed,     \* with_retry has returned None in this run (history)
    \* analyze.py: one unit operation under with_retry
    u_pc,           \* idle, or where the attempt is: upload, poll, generate,
                    \* parse, finally, ended; returned after with_retry
    u_op,           \* the operation: preanalyze_video, analyze_segment,
                    \* analyze_segment_blind
    u_attempt,      \* the attempt of with_retry; also names the file the
                    \* attempt uploads
    u_state,        \* file_obj.state.name, "none" without a file_obj
    u_polls,        \* how often the attempt has polled client.files.get
    u_pending,      \* what the try block is leaving with, while the
                    \* finally clause runs
    u_remote,       \* the uploaded files the remote service holds
    u_uploaded,     \* the files ever uploaded (history)
    u_delete_tried, \* the files client.files.delete was called for (history)
    u_outcomes,     \* how each attempt ended, in order (history)
    \* preprocess.py: create_proxy
    p_files,        \* the proxy paths that exist
    p_runs,         \* proxy path -> how often ffmpeg was run for it (history)
    p_deleted,      \* the proxy paths ever deleted (history)
    p_last,         \* the last call: its arguments, whether it ran ffmpeg,
                    \* what it returned (history)
    \* analyze.py: _parse_json_response under with_retry
    j_pc,           \* idle, running, returned
    j_text,         \* response.text of the current attempt
    j_attempt,      \* the attempt of with_retry
    j_log,          \* per attempt, the text parsed and what
                    \* _parse_json_response did with it (history)
    j_result        \* what with_retry returned, <<>> before

seg_vars == <<duration, seg_pc, start, chunks, segments, chunk_files, proxy_files>>
ledger_vars == <<processed, failed, disk, last, recent>>
retry_vars == <<r_pc, r_name, attempt, last_error, r_result, r_log, sleeps,
                r_marked_failed>>
merge_vars == <<chunk_results, merged>>
enrich_vars == <<all_analyses, all_blind, before>>
pipe_vars == <<args, GEMINI_API_KEY, long_videos, tree, pc, step, exit_code, videos,
               queue, result,
               corpus, blind_files, raw_json, synthesis_file, invoked, prepared,
               at_start, rerun, run_failed>>
upload_vars == <<u_pc, u_op, u_attempt, u_state, u_polls, u_pending, u_remote,
                 u_uploaded, u_delete_tried, u_outcomes>>
proxy_vars == <<p_files, p_runs, p_deleted, p_last>>
parse_vars == <<j_pc, j_text, j_attempt, j_log, j_result>>
ext_vars == <<merge_vars, enrich_vars, pipe_vars, upload_vars, proxy_vars,
              parse_vars>>
vars == <<seg_vars, ledger_vars, retry_vars, ext_vars>>

Min(a, b) == IF a < b THEN a ELSE b
Last(s) == s[Len(s)]

\* ============================================================ preprocess.py

\* end = min(start + CHUNK_DURATION_S, duration_s)
ChunkEnd(s, d) == Min(s + CHUNK_DURATION_S, d)

\* A chunk loop that forgets the overlap.
NextStartNoOverlap(e) == e

\* start = end - CHUNK_OVERLAP_S
NextStart(e) == e - CHUNK_OVERLAP_S

\* chunks.append({"path": chunk_path, "start_s": start, "end_s": end}); the
\* path is the chunk's 1-based index idx, which the meta file records too.
Chunk(idx, s, e) == [index |-> idx, start_s |-> s, end_s |-> e]

\* The segment prepare_video builds from a chunk or from the whole video.
Segment(s, e) == [start_s |-> s, end_s |-> e]

\* create_proxy: the proxy path is decided by the source and the offset; an
\* existing proxy is returned as is, otherwise ffmpeg runs and may fail.
create_proxy_ok(offset, ffmpeg_ok) == offset \in proxy_files \/ ffmpeg_ok

SegInit ==
    /\ duration \in Durations
    /\ seg_pc = "start"
    /\ start = 0
    /\ chunks = <<>>
    /\ segments = <<>>
    \* chunk files left by an earlier, interrupted run over the same video
    /\ chunk_files \in
         IF duration <= CHUNK_DURATION_S THEN {{}}
         ELSE {1..k : k \in 0..MaxChunks}
    /\ proxy_files \in
         IF duration <= CHUNK_DURATION_S THEN {{}, {0}} ELSE {{}}

\* The segmenter at rest, for the specifications of the ledger.
SegIdle ==
    /\ duration = 1
    /\ seg_pc = "start"
    /\ start = 0
    /\ chunks = <<>>
    /\ segments = <<>>
    /\ chunk_files = {}
    /\ proxy_files = {}

\* prepare_video up to its call of chunk_video: the duration probe, then the
\* short path (one proxy of the whole video) or the entry into chunk_video.
prepare_video ==
    /\ seg_pc = "start"
    /\ \E probe_ok, ffmpeg_ok \in BOOLEAN :
         IF ~probe_ok
         THEN /\ seg_pc' = "raised"
              /\ UNCHANGED <<start, chunks, segments, proxy_files>>
         ELSE IF duration <= CHUNK_DURATION_S
         THEN IF create_proxy_ok(0, ffmpeg_ok)
              THEN /\ proxy_files' = proxy_files \cup {0}
                   /\ segments' = <<Segment(0, duration)>>
                   /\ seg_pc' = "returned"
                   /\ UNCHANGED <<start, chunks>>
              ELSE /\ seg_pc' = "raised"
                   /\ UNCHANGED <<start, chunks, segments, proxy_files>>
         ELSE /\ start' = 0
              /\ chunks' = <<>>
              /\ seg_pc' = "chunking"
              /\ UNCHANGED <<segments, proxy_files>>
    /\ UNCHANGED <<duration, chunk_files>>
    /\ UNCHANGED <<ledger_vars, retry_vars, ext_vars>>

\* One iteration of chunk_video's while loop, with the loop test that follows
\* it; when that test fails chunk_video returns and prepare_video makes one
\* proxy per chunk and returns the segments.
chunk_video ==
    /\ seg_pc = "chunking"
    /\ start < duration
    /\ Len(chunks) < MaxChunks
    /\ LET end == ChunkEnd(start, duration)
           idx == Len(chunks) + 1
           grown == Append(chunks, Chunk(idx, start, end))
       IN  \E ffmpeg_ok, proxies_ok \in BOOLEAN :
             IF idx \notin chunk_files /\ ~ffmpeg_ok
             THEN /\ seg_pc' = "raised"
                  /\ UNCHANGED <<start, chunks, segments, chunk_files, proxy_files>>
             ELSE /\ chunk_files' = chunk_files \cup {idx}
                  /\ chunks' = grown
                  /\ start' = NextStart(end)
                  /\ IF start' < duration
                     THEN /\ seg_pc' = "chunking"
                          /\ UNCHANGED <<segments, proxy_files>>
                     ELSE IF \A i \in 1..Len(grown) :
                                 create_proxy_ok(grown[i].start_s, proxies_ok)
                     THEN /\ proxy_files' = proxy_files \cup
                               {grown[i].start_s : i \in 1..Len(grown)}
                          /\ segments' =
                               [i \in 1..Len(grown) |->
                                  Segment(grown[i].start_s, grown[i].end_s)]
                          /\ seg_pc' = "returned"
                     ELSE /\ seg_pc' = "raised"
                          /\ UNCHANGED <<segments, proxy_files>>
    /\ UNCHANGED duration
    /\ UNCHANGED <<ledger_vars, retry_vars, ext_vars>>

\* ============================================================== progress.py

\* The tracker's _data, without started_at and pending, which nothing reads.
Data == [processed |-> processed, failed |-> failed]

\* The number of times x occurs in the sequence s.
Count(s, x) == Cardinality({i \in DOMAIN s : s[i] = x})

\* The failure records of fl that name n / that name another unit.
RecordsOf(fl, n) == SelectSeq(fl, LAMBDA f : f.file = n)
RecordsNotOf(fl, n) == SelectSeq(fl, LAMBDA f : f.file # n)

\* is_done and failed_files
is_done(d, n) == \E i \in DOMAIN d.processed : d.processed[i] = n
failed_files(d) == [i \in DOMAIN d.failed |-> d.failed[i].file]

\* json.dumps of _data: a failure record is written as its three values in
\* key order; json.loads reads them back into a record.
dumps(d) ==
    <<d.processed,
      [i \in DOMAIN d.failed |->
         <<d.failed[i].file, d.failed[i].error, d.failed[i].attempts>>]>>
loads(t) ==
    [processed |-> t[1],
     failed |-> [i \in DOMAIN t[2] |->
                   [file |-> t[2][i][1], error |-> t[2][i][2],
                    attempts |-> t[2][i][3]]]]

\* _save: the file holds the dump of _data when write_text has returned.
save(d) == dumps(d)

\* _load of a readable ledger: the file's content, or an empty ledger when
\* there is no file.
load(file) ==
    IF file = "absent" THEN [processed |-> <<>>, failed |-> <<>>]
    ELSE loads(file)

\* A mark_done that appends without looking.
mark_done_append(d, n) ==
    [processed |-> Append(d.processed, n), failed |-> RecordsNotOf(d.failed, n)]

\* A mark_done that leaves the failure records alone.
mark_done_keep_failed(d, n) ==
    [processed |-> IF is_done(d, n) THEN d.processed ELSE Append(d.processed, n),
     failed |-> d.failed]

\* mark_done, before its _save
mark_done(d, n) ==
    [processed |-> IF ~is_done(d, n) THEN Append(d.processed, n) ELSE d.processed,
     failed |-> RecordsNotOf(d.failed, n)]

\* A mark_failed that always appends.
mark_failed_append(d, n, e, a) ==
    [processed |-> d.processed,
     failed |-> Append(d.failed, [file |-> n, error |-> e, attempts |-> a])]

\* mark_failed, before its _save: the first record naming n is updated in
\* place, or a new record is appended.
mark_failed(d, n, e, a) ==
    IF \E i \in DOMAIN d.failed : d.failed[i].file = n
    THEN LET existing ==
                 CHOOSE i \in DOMAIN d.failed :
                    /\ d.failed[i].file = n
                    /\ \A j \in 1..(i - 1) : d.failed[j].file # n
         IN  [processed |-> d.processed,
              failed |-> [d.failed EXCEPT ![existing] =
                            [file |-> n, error |-> e, attempts |-> a]]]
    ELSE [processed |-> d.processed,
          failed |-> Append(d.failed, [file |-> n, error |-> e, attempts |-> a])]

\* The record kept of a ledger operation: what it was, on which name, and
\* whether that name was done / had a failure record before it.
Op(op, n) ==
    [op |-> op, name |-> n,
     was_done |-> n # 0 /\ is_done(Data, n),
     was_failed |-> n # 0 /\ RecordsOf(failed, n) # <<>>]

LedgerIdle ==
    /\ processed = <<>>
    /\ failed = <<>>
    /\ disk = "absent"
    /\ last = [op |-> "none", name |-> 0, was_done |-> FALSE, was_failed |-> FALSE]
    /\ recent = [n \in Names |-> <<>>]

RetryIdle ==
    /\ r_pc = "idle"
    /\ r_name = 0
    /\ attempt = 0
    /\ last_error = 0
    /\ r_result = <<>>
    /\ r_log = <<>>
    /\ sleeps = <<>>
    /\ r_marked_failed = 0

\* The locals of a call of with_retry are gone once its caller goes on.
RetryReset ==
    /\ r_pc' = "idle"
    /\ r_name' = 0
    /\ attempt' = 0
    /\ last_error' = 0
    /\ r_result' = <<>>
    /\ r_log' = <<>>
    /\ sleeps' = <<>>
    /\ r_marked_failed' = 0

\* The ledger becomes d and is saved.
Mutate(d) ==
    /\ processed' = d.processed
    /\ failed' = d.failed
    /\ disk' = save(d)

\* tracker.mark_done(name) called by a phase (phase_analysis, line 231 of
\* vhs_analyzer.py), between two calls of with_retry.
CallMarkDone ==
    /\ r_pc # "running"
    /\ last.op # "load_error"
    /\ \E n \in Names :
         /\ Mutate(mark_done(Data, n))
         /\ last' = Op("mark_done", n)
         /\ recent' = [recent EXCEPT ![n] = <<>>]
    /\ RetryReset
    /\ UNCHANGED <<seg_vars, ext_vars>>

\* tracker.mark_failed(name, error, attempts) called on the tracker.
CallMarkFailed ==
    /\ r_pc # "running"
    /\ last.op # "load_error"
    /\ \E n \in Names, e \in Errors, a \in AttemptCounts :
         /\ Mutate(mark_failed(Data, n, e, a))
         /\ last' = Op("mark_failed", n)
         /\ recent' = [recent EXCEPT ![n] = <<e, a>>]
    /\ RetryReset
    /\ UNCHANGED <<seg_vars, ext_vars>>

\* The process dies between two ledger operations and a later run constructs
\* a ProgressTracker over the same work directory: __init__ and _load.
Restart ==
    /\ disk # "torn"
    /\ last.op # "load_error"
    /\ processed' = load(disk).processed
    /\ failed' = load(disk).failed
    /\ last' = Op("load", 0)
    /\ RetryReset
    /\ UNCHANGED <<disk, recent, seg_vars, ext_vars>>

\* The process dies inside the _save of a ledger operation: write_text has
\* opened the file for writing, which empties it, and the dump is not or only
\* partly written.  No prefix of the dump is JSON, so the _load of the next
\* run raises and no ProgressTracker is constructed.
CrashInSave ==
    /\ last.op # "load_error"
    /\ disk' = "torn"
    /\ processed' = <<>>
    /\ failed' = <<>>
    /\ last' = Op("load_error", 0)
    /\ RetryReset
    /\ UNCHANGED <<recent, seg_vars, ext_vars>>

\* What one call of fn does: it returns a value or raises an exception
\* whose text is val.
Outcomes ==
    [ok : {TRUE}, val : Results] \cup [ok : {FALSE}, val : Errors]

\* A retry loop that gives up one attempt early.
more_attempts_short(a) == a + 1 < MAX_RETRIES

\* for attempt in range(1, config.MAX_RETRIES + 1): there is a next iteration.
more_attempts(a) == a + 1 <= MAX_RETRIES

\* wait = config.RETRY_BACKOFF[attempt - 1], a 0-based index.
backoff_wait(a) == RETRY_BACKOFF[a]

\* with_retry(fn, video_name, tracker) is entered.
with_retry_call ==
    /\ r_pc # "running"
    /\ last.op # "load_error"
    /\ \E n \in Names : r_name' = n
    /\ r_pc' = "running"
    /\ attempt' = 1
    /\ last_error' = 0
    /\ r_result' = <<>>
    /\ r_log' = <<>>
    /\ sleeps' = <<>>
    /\ r_marked_failed' = 0
    /\ UNCHANGED <<ledger_vars, seg_vars, ext_vars>>

\* One iteration of with_retry's loop: fn is called; on success the unit is
\* marked done and the result returned; on an exception the error is kept,
\* the backoff slept unless this was the last attempt, and when the loop is
\* over the unit is marked failed and None returned.
with_retry_attempt ==
    /\ r_pc = "running"
    /\ \E out \in Outcomes :
         /\ r_log' = Append(r_log, out)
         /\ IF out.ok
            THEN /\ Mutate(mark_done(Data, r_name))
                 /\ last' = Op("mark_done", r_name)
                 /\ recent' = [recent EXCEPT ![r_name] = <<>>]
                 /\ r_result' = <<"result", out.val>>
                 /\ r_pc' = "returned"
                 /\ UNCHANGED <<attempt, last_error, sleeps, r_marked_failed>>
            ELSE /\ last_error' = out.val
                 /\ sleeps' = IF attempt < MAX_RETRIES
                              THEN Append(sleeps, backoff_wait(attempt))
                              ELSE sleeps
                 /\ IF more_attempts(attempt)
                    THEN /\ attempt' = attempt + 1
                         /\ UNCHANGED <<r_pc, r_result, r_marked_failed,
                                        ledger_vars>>
                    ELSE /\ Mutate(mark_failed(Data, r_name, last_error',
                                               MAX_RETRIES))
                         /\ last' = Op("mark_failed", r_name)
                         /\ recent' = [recent EXCEPT
                                         ![r_name] = <<last_error', MAX_RETRIES>>]
                         /\ r_marked_failed' = r_marked_failed + 1
                         /\ r_result' = <<"None">>
                         /\ r_pc' = "returned"
                         /\ UNCHANGED attempt
    /\ UNCHANGED <<r_name, seg_vars, ext_vars>>

\* ============================================== analyze.py: the merge

\* The values a segment reports as tc_start, read as seg.get("tc_start", ""):
\* "" is also what a segment without the key counts as.
TcStarts == {"", "00:00:00", "00:49:30"}
\* Longest list of segments in one result, longest list of chunk results.
MaxSegs == 2
MaxChunkResults == 2

\* The lists of tc_start values one result can report.
TcLists == UNION {[1..n -> TcStarts] : n \in 0..MaxSegs}

\* The result of the i-th chunk, reporting the tc_start values tcs: what it
\* says besides tc_start is its own, no two segments and no two results
\* agree on it.
ChunkResult(i, tcs) ==
    [video_profil |-> <<"video_profil", i>>,
     segments |-> [j \in 1..Len(tcs) |->
                     [tc_start |-> tcs[j], content |-> <<i, j>>]],
     observations_globales |-> <<"observations_globales", i>>,
     meta |-> <<"_meta", i>>]

\* The inner loop over the segments of one result: seen is seen_starts, out
\* is merged["segments"]; gives both back.
RECURSIVE scan_segments_keep_all(_, _, _)
scan_segments_keep_all(segs, seen, out) ==
    IF segs = <<>> THEN <<seen, out>>
    ELSE scan_segments_keep_all(Tail(segs), seen \cup {Head(segs).tc_start},
                                Append(out, Head(segs)))

RECURSIVE scan_segments(_, _, _)
scan_segments(segs, seen, out) ==
    IF segs = <<>> THEN <<seen, out>>
    ELSE LET seg == Head(segs)
             tc == seg.tc_start
         IN  IF tc \notin seen
             THEN scan_segments(Tail(segs), seen \cup {tc}, Append(out, seg))
             ELSE scan_segments(Tail(segs), seen, out)

\* The outer loop over the results.
RECURSIVE scan_results_fresh_seen(_, _, _)
scan_results_fresh_seen(crs, seen, out) ==
    IF crs = <<>> THEN out
    ELSE scan_results_fresh_seen(Tail(crs), {},
                                 scan_segments(Head(crs).segments, {}, out)[2])

RECURSIVE scan_results(_, _, _)
scan_results(crs, seen, out) ==
    IF crs = <<>> THEN out
    ELSE LET r == scan_segments(Head(crs).segments, seen, out)
         IN  scan_results(Tail(crs), r[1], r[2])

merged_observations_first(crs) == crs[1].observations_globales

merged_observations(crs) == crs[Len(crs)].observations_globales

merge_chunk_results_always_rebuild(crs) ==
    [video_profil |-> crs[1].video_profil,
     segments |-> scan_results(crs, {}, <<>>),
     observations_globales |-> merged_observations(crs)]

merge_chunk_results(crs) ==
    IF Len(crs) = 1 THEN crs[1]
    ELSE [video_profil |-> crs[1].video_profil,
          segments |-> scan_results(crs, {}, <<>>),
          observations_globales |-> merged_observations(crs)]

MergeInit ==
    /\ \E tcss \in UNION {[1..n -> TcLists] : n \in 1..MaxChunkResults} :
         chunk_results = [i \in 1..Len(tcss) |-> ChunkResult(i, tcss[i])]
    /\ merged = <<>>

MergeIdle ==
    /\ chunk_results = <<>>
    /\ merged = <<>>

\* A caller (phase_analysis, phase_blind_analysis) merges its chunk results.
merge_call ==
    /\ chunk_results # <<>>
    /\ merged = <<>>
    /\ merged' = <<merge_chunk_results(chunk_results)>>
    /\ UNCHANGED chunk_results
    /\ UNCHANGED <<seg_vars, ledger_vars, retry_vars, enrich_vars, pipe_vars,
                   upload_vars, proxy_vars, parse_vars>>

\* ===================================== vhs_analyzer.py: the enrichment

\* The input videos, by file name, and the stem their artifacts are named
\* by; a.avi stands beside a.mp4 in a source directory of twins, and
\* preanalysis_a.mp4 in a prefixed one.
Videos == {"a.mp4", "b.mp4"}
TwinVideos == {"a.avi", "a.mp4"}
PrefixedVideos == {"a.mp4", "preanalysis_a.mp4"}
AllVideos == Videos \cup TwinVideos \cup PrefixedVideos
Stem(v) ==
    IF v = "b.mp4" THEN "b"
    ELSE IF v = "preanalysis_a.mp4" THEN "preanalysis_a"
    ELSE "a"

\* The secondary analysis of video v, reporting the tc_start values tcs.
BlindResult(v, tcs) ==
    [segments |-> [j \in 1..Len(tcs) |->
                     [tc_start |-> tcs[j],
                      ce_qui_me_retient |-> <<"ce_qui_me_retient", v, j>>,
                      tension_visible |-> <<"tension_visible", v, j>>,
                      description_pure |-> <<"description_pure", v, j>>]],
     meta |-> <<"_meta", v, "blind">>]

\* blind_by_tc[tc]: of the secondary segments with a non-empty tc_start the
\* dict keeps, for each tc_start, the last one.
blind_by_tc_keys(bsegs) ==
    {bsegs[k].tc_start : k \in {i \in DOMAIN bsegs : bsegs[i].tc_start # ""}}
blind_by_tc(bsegs, tc) ==
    LET ks == {k \in DOMAIN bsegs : bsegs[k].tc_start = tc}
    IN  bsegs[CHOOSE k \in ks : \A j \in ks : j <= k]

\* The three fields a matched primary segment receives.
BlindFields(b) ==
    [blind_ce_qui_me_retient |-> b.ce_qui_me_retient,
     blind_tension_visible |-> b.tension_visible,
     blind_description_pure |-> b.description_pure]

\* The body of the loop over the primary segments.
enrich_segment_any_tc(seg, bsegs) ==
    IF bsegs # <<>> THEN BlindFields(bsegs[1]) @@ seg ELSE seg

\* The body of the loop, keeping of the primary segment its tc_start only.
enrich_segment_drop_fields(seg, bsegs) ==
    LET tc == seg.tc_start
    IN  IF tc # "" /\ tc \in blind_by_tc_keys(bsegs)
        THEN BlindFields(blind_by_tc(bsegs, tc)) @@ [tc_start |-> tc]
        ELSE seg

enrich_segment(seg, bsegs) ==
    LET tc == seg.tc_start
    IN  IF tc # "" /\ tc \in blind_by_tc_keys(bsegs)
        THEN BlindFields(blind_by_tc(bsegs, tc)) @@ seg
        ELSE seg

enrich_with_blind(analyses, blind) ==
    [name \in DOMAIN analyses |->
       IF name \notin DOMAIN blind THEN analyses[name]
       ELSE LET segs == analyses[name].segments
            IN  [analyses[name] EXCEPT
                   !.segments = [k \in DOMAIN segs |->
                                   enrich_segment(segs[k],
                                                  blind[name].segments)]]]

\* Every video has a primary analysis, reporting the same tc_start values
\* for all; any of them has a secondary analysis, each with its own list.
EnrichInit ==
    /\ \E tcs \in TcLists :
         all_analyses = [v \in Videos |-> ChunkResult(v, tcs)]
    /\ \E vs \in SUBSET Videos : \E btcs \in [vs -> TcLists] :
         all_blind = [v \in vs |-> BlindResult(v, btcs[v])]
    /\ before = <<>>

EnrichIdle ==
    /\ all_analyses = <<>>
    /\ all_blind = <<>>
    /\ before = <<>>

\* main calls enrich_with_blind, which changes all_analyses in place.
enrich_call ==
    /\ before = <<>>
    /\ all_analyses # <<>>
    /\ before' = <<all_analyses>>
    /\ all_analyses' = enrich_with_blind(all_analyses, all_blind)
    /\ UNCHANGED all_blind
    /\ UNCHANGED <<seg_vars, ledger_vars, retry_vars, merge_vars, pipe_vars,
                   upload_vars, proxy_vars, parse_vars>>

\* ================================== vhs_analyzer.py: main and the phases

\* What the source path given on the command line holds: nothing (the path
\* does not exist), a directory without a video, or the two videos.
Sources == {"missing", "empty", "videos"}

\* The video files rglob finds under the source, in the order the file
\* system lists them, and the order of their paths.
Listing(src) ==
    IF src # "videos" THEN <<>>
    ELSE IF tree = "twins" THEN <<"a.mp4", "a.avi">>
    ELSE IF tree = "prefixed" THEN <<"preanalysis_a.mp4", "a.mp4">>
    ELSE <<"b.mp4", "a.mp4">>
PathOrder == <<"a.avi", "a.mp4", "b.mp4", "preanalysis_a.mp4">>
PathBefore(x, y) ==
    \E i, k \in DOMAIN PathOrder :
        i < k /\ PathOrder[i] = x /\ PathOrder[k] = y

\* collect_videos returns the videos sorted.
collect_videos_unsorted(src) == Listing(src)

collect_videos(src) == SortSeq(Listing(src), PathBefore)

VideoList == collect_videos("videos")
Stems == {Stem(v) : v \in Videos}

\* video.name, in the parts a unit name is put together from: the file
\* name preanalysis_a.mp4 is "preanalysis_" followed by the name a.mp4.
Name(v) ==
    IF v = "preanalysis_a.mp4" THEN <<"preanalysis", "a.mp4">> ELSE <<v>>

\* The unit names handed to with_retry and to mark_done:
\* f"preanalysis_{name}", f"{name}_blind_{start_s}", f"{name}_chunk_{start_s}"
\* and name itself.
preanalysis_unit(v) == <<"preanalysis">> \o Name(v)
blind_unit(v, start_s) == Name(v) \o <<"blind", start_s>>
chunk_unit(v, start_s) == Name(v) \o <<"chunk", start_s>>
video_unit(v) == Name(v)

\* What the remote model answers: the tc_start values of the primary
\* analysis of a video and of a secondary analysis kept in the work
\* directory.
PrimaryTcs == <<"00:00:00", "00:49:30">>
BlindTcs == <<"00:00:00">>

\* How a unit operation ends inside with_retry: with a value, or raising at
\* each of the MAX_RETRIES attempts.  preanalyze_video returns the parsed
\* JSON, a profile or an empty object; analyze_segment returns a dict that
\* holds at least _meta; analyze_segment_blind raises AttributeError at
\* config.MODEL_BLIND_PASS, which config.py does not define.
PreanalysisOutcomes == {"profile", "empty", "exhausted"}
AnalysisOutcomes == {"analysis", "exhausted"}
BlindOutcomes == {"exhausted"}

\* The pipeline reads the ledger through is_done and failed_files only,
\* which do not depend on the order of the lists: the lists are kept in one
\* fixed order of the unit names, phase by phase and video by video.
UnitOrder ==
    <<preanalysis_unit("a.avi"), preanalysis_unit("a.mp4"),
      preanalysis_unit("b.mp4"), preanalysis_unit("preanalysis_a.mp4"),
      blind_unit("a.avi", 0), blind_unit("a.mp4", 0), blind_unit("b.mp4", 0),
      blind_unit("preanalysis_a.mp4", 0),
      chunk_unit("a.avi", 0), chunk_unit("a.mp4", 0), chunk_unit("b.mp4", 0),
      chunk_unit("preanalysis_a.mp4", 0),
      video_unit("a.avi"), video_unit("a.mp4"), video_unit("b.mp4")>>
Rank(u) == CHOOSE k \in DOMAIN UnitOrder : UnitOrder[k] = u
InUnitOrder(d) ==
    [processed |-> SortSeq(d.processed, LAMBDA x, y : Rank(x) < Rank(y)),
     failed |-> SortSeq(d.failed, LAMBDA x, y : Rank(x.file) < Rank(y.file))]

\* "if result:" taken as true of whatever with_retry returned.
Truthy_any(r) == r # <<>>

\* "if result:" on what with_retry returned.
Truthy(r) == r # <<>> /\ r[1] = "result" /\ r[2] # "empty"

\* with_retry handing back a value even after the last failed attempt.
with_retry_result_never_none(o) == <<"result", o>>

\* The ledger after with_retry(fn, unit, tracker) whose fn ended as o, and
\* what with_retry returns.
with_retry_ledger(d, unit, o) ==
    InUnitOrder(IF o = "exhausted" THEN mark_failed(d, unit, 1, MAX_RETRIES)
                ELSE mark_done(d, unit))
with_retry_result(o) ==
    IF o = "exhausted" THEN <<"None">> ELSE <<"result", o>>

\* The stages of main, with the export whatever --phase says.
Stages_export_always(a) ==
    (IF a.phase <= 1 THEN <<"phase1">> ELSE <<>>)
    \o (IF a.phase <= 2 /\ a.blind THEN <<"phase2a">> ELSE <<>>)
    \o (IF a.phase <= 3 THEN <<"phase2b">> ELSE <<"load_raw">>)
    \o <<"enrich", "export", "synthesis">>

\* The stages main goes through, by its flags.
Stages(a) ==
    (IF a.phase <= 1 THEN <<"phase1">> ELSE <<>>)
    \o (IF a.phase <= 2 /\ a.blind THEN <<"phase2a">> ELSE <<>>)
    \o (IF a.phase <= 3 THEN <<"phase2b">> ELSE <<"load_raw">>)
    \o <<"enrich">>
    \o (IF a.phase <= 4 THEN <<"export">> ELSE <<>>)
    \o <<"synthesis">>
StageAfter(cur, a) ==
    LET st == Stages(a)
    IN  st[(CHOOSE k \in DOMAIN st : st[k] = cur) + 1]

\* The videos a phase loops over: phase 1 over those without a key in the
\* corpus map, phases 2a and 2b over all.
QueueAt(stage, vids, corp) ==
    IF stage = "phase1" THEN SelectSeq(vids, LAMBDA v : v \notin corp)
    ELSE IF stage \in {"phase2a", "phase2b"} THEN vids
    ELSE <<>>

Enter(stage, vids) ==
    /\ pc' = stage
    /\ queue' = QueueAt(stage, vids, corpus)

\* The run is over: normally ("0"), by an exception nothing catches
\* ("uncaught"), or killed ("killed").
Exit(code) ==
    /\ pc' = "exited"
    /\ exit_code' = code
    /\ step' = "call"
    /\ queue' = <<>>
    /\ result' = <<>>
    /\ all_analyses' = <<>>
    /\ all_blind' = <<>>

\* prepare_video for v, or the video itself under --no-proxy: "ok" with the
\* one segment of a video of at most CHUNK_DURATION_S, "raise" when ffprobe
\* or ffmpeg fails, "hang" for a longer video, whose chunk_video never
\* returns.
PrepareOutcomes(v) ==
    IF args.no_proxy THEN {"ok"}
    ELSE IF v \in long_videos THEN {"hang", "raise"}
    ELSE {"ok", "raise"}

\* What phase_analysis does with a video: load its raw result, skip it on
\* the ledger's word, or analyse it.
analysis_decision_ledger_first(raw, d, v) ==
    IF is_done(d, video_unit(v)) THEN "skip"
    ELSE IF Stem(v) \in DOMAIN raw THEN "load"
    ELSE "analyse"

analysis_decision_ledger_only(raw, d, v) ==
    IF is_done(d, video_unit(v)) THEN "skip" ELSE "analyse"

analysis_decision_artifact_only(raw, d, v) ==
    IF Stem(v) \in DOMAIN raw THEN "load" ELSE "analyse"

analysis_decision(raw, d, v) ==
    IF Stem(v) \in DOMAIN raw THEN "load"
    ELSE IF is_done(d, video_unit(v)) THEN "skip"
    ELSE "analyse"

\* The merged analysis phase_analysis writes for v.
MergedAnalysis(v) ==
    [source_file |-> v] @@ merge_chunk_results(<<ChunkResult(v, PrimaryTcs)>>)

\* The names of failed units, and the ledger without the records of vids.
FailedNames(d) == {failed_files(d)[i] : i \in DOMAIN failed_files(d)}
\* The clearing that drops every failure record.
ClearFailed_all(d, vids) == [processed |-> d.processed, failed |-> <<>>]

ClearFailed(d, vids) ==
    [processed |-> d.processed,
     failed |-> SelectSeq(d.failed,
                          LAMBDA f : \A i \in DOMAIN vids :
                                        f.file # video_unit(vids[i]))]

\* The videos some unit of which has a failure record in d.
VideosWithFailedUnit(d) ==
    {v \in Videos :
        {preanalysis_unit(v), blind_unit(v, 0), chunk_unit(v, 0),
         video_unit(v)} \cap FailedNames(d) # {}}

\* The flags and the environment of a plain run.
PlainArgs(ph, bl, np) ==
    [phase |-> ph, blind |-> bl, no_proxy |-> np, retry_failed |-> FALSE,
     dry_run |-> FALSE, source |-> "videos"]

PipeIdle ==
    /\ args = PlainArgs(1, FALSE, FALSE)
    /\ GEMINI_API_KEY = TRUE
    /\ long_videos = {}
    /\ tree = "plain"
    /\ pc = "idle"
    /\ step = "call"
    /\ exit_code = "none"
    /\ videos = <<>>
    /\ queue = <<>>
    /\ result = <<>>
    /\ corpus = {}
    /\ blind_files = <<>>
    /\ raw_json = <<>>
    /\ synthesis_file = FALSE
    /\ invoked = {}
    /\ prepared = {}
    /\ at_start = <<>>
    /\ rerun = FALSE
    /\ run_failed = FALSE

\* An empty work directory but for secondary-pass files, which no run of
\* this code writes; --phase, --blind and --no-proxy are the same for all
\* runs over it.  Secondary-pass files are there only under --blind, a long
\* video only under flags that make a run look at its duration.
PipeInit ==
    /\ \E ph \in 1..5, bl \in BOOLEAN, np \in BOOLEAN :
         args = PlainArgs(ph, bl, np)
    /\ GEMINI_API_KEY = TRUE
    /\ tree \in {"plain", "twins", "prefixed"}
    /\ long_videos \in {{}, {"b.mp4"}}
    /\ tree # "plain" => long_videos = {}
    /\ long_videos # {} => (args.phase <= 3 /\ ~args.no_proxy)
    /\ pc = "idle"
    /\ step = "call"
    /\ exit_code = "none"
    /\ videos = <<>>
    /\ queue = <<>>
    /\ result = <<>>
    /\ corpus = {}
    /\ \E ss \in SUBSET Stems :
         /\ ss # {} => args.blind
         /\ blind_files = [st \in ss |->
                             BlindResult(CHOOSE v \in Videos : Stem(v) = st,
                                         BlindTcs)]
    /\ raw_json = <<>>
    /\ synthesis_file = FALSE
    /\ invoked = {}
    /\ prepared = {}
    /\ at_start = <<>>
    /\ rerun = FALSE
    /\ run_failed = FALSE

pipe_frame == UNCHANGED <<seg_vars, retry_vars, merge_vars, before, last,
                          recent, long_videos, tree, upload_vars, proxy_vars,
                          parse_vars>>

\* The exits between the cost estimate and the first phase: sys.exit(0)
\* under --dry-run, sys.exit(1) without the key.
exit_before_phases(dr, key) ==
    IF dr THEN "0" ELSE IF ~key THEN "1" ELSE "none"

\* The flags main does not get to read are left as in a plain run: no
\* flag after a source without videos, --dry-run not after an empty
\* selection of --retry-failed.
ReadByMain(src, rf, dr, selected) ==
    /\ collect_videos(src) = <<>> => (~rf /\ ~dr)
    /\ (rf /\ selected = <<>>) => ~dr

\* main up to the first phase: the source and the videos are checked, the
\* tracker is loaded, --retry-failed keeps the videos whose name is a failed
\* name and drops their records, estimate_cost probes the durations, and
\* --dry-run and a missing key end the run.
main_begin ==
    /\ pc \in {"idle", "exited"}
    /\ \E src \in Sources, rf \in BOOLEAN, dr \in BOOLEAN, key \in BOOLEAN :
         LET found == collect_videos(src)
             vids == IF rf
                     THEN SelectSeq(found,
                                    LAMBDA v : video_unit(v) \in FailedNames(Data))
                     ELSE found
         IN  /\ ReadByMain(src, rf, dr, vids)
             /\ args' = [args EXCEPT !.retry_failed = rf, !.dry_run = dr,
                                     !.source = src]
             /\ GEMINI_API_KEY' = key
             /\ rerun' = (exit_code = "0" /\ ~run_failed /\ args' = args
                          /\ GEMINI_API_KEY' = GEMINI_API_KEY)
             /\ at_start' = [raw |-> DOMAIN raw_json,
                             done |-> {v \in AllVideos :
                                         is_done(Data, video_unit(v))}]
             /\ invoked' = {}
             /\ run_failed' = FALSE
             /\ videos' = vids
             /\ IF found = <<>>
                THEN /\ Exit("1")
                     /\ prepared' = {}
                     /\ UNCHANGED <<processed, failed, disk>>
                ELSE IF rf /\ vids = <<>>
                THEN /\ Exit("0")
                     /\ prepared' = {}
                     /\ UNCHANGED <<processed, failed, disk>>
                ELSE /\ IF rf THEN Mutate(ClearFailed(Data, vids))
                        ELSE UNCHANGED <<processed, failed, disk>>
                     /\ prepared' = {<<"estimate", vids[i]>> : i \in DOMAIN vids}
                     /\ IF exit_before_phases(dr, key) # "none"
                        THEN Exit(exit_before_phases(dr, key))
                        ELSE /\ Enter(Stages(args)[1], vids)
                             /\ exit_code' = "none"
                             /\ UNCHANGED <<step, result, all_analyses,
                                            all_blind>>
    /\ UNCHANGED <<corpus, blind_files, raw_json, synthesis_file>>
    /\ pipe_frame

\* The loop of a phase is through: main goes on to the next stage.
phase_end ==
    /\ pc \in {"phase1", "phase2a", "phase2b"}
    /\ queue = <<>>
    /\ step = "call"
    /\ Enter(StageAfter(pc, args), videos)
    /\ UNCHANGED <<args, GEMINI_API_KEY,
                   step, exit_code, videos, result, corpus, blind_files,
                   raw_json, synthesis_file, invoked, prepared, at_start,
                   rerun, run_failed, all_analyses, all_blind, processed,
                   failed, disk>>
    /\ pipe_frame

\* phase_preanalysis, one iteration: the sample, with_retry, and a truthy
\* result stored in the corpus map, which is written.
preanalysis_video ==
    /\ pc = "phase1"
    /\ queue # <<>>
    /\ LET v == Head(queue)
       IN  /\ prepared' = prepared \cup {<<"phase1", v>>}
           /\ \/ /\ Exit("uncaught")
                 /\ UNCHANGED <<corpus, invoked, run_failed, processed, failed,
                                disk>>
              \/ \E o \in PreanalysisOutcomes :
                   /\ invoked' = invoked \cup {preanalysis_unit(v)}
                   /\ Mutate(with_retry_ledger(Data, preanalysis_unit(v), o))
                   /\ run_failed' = (run_failed \/ o = "exhausted")
                   /\ corpus' = IF Truthy(with_retry_result(o))
                                THEN corpus \cup {v} ELSE corpus
                   /\ queue' = Tail(queue)
                   /\ UNCHANGED <<pc, step, exit_code, result, all_analyses,
                                  all_blind>>
    /\ UNCHANGED <<args, GEMINI_API_KEY,
                   videos, blind_files, raw_json, synthesis_file,
                   at_start, rerun>>
    /\ pipe_frame

\* phase_blind_analysis, one iteration.
blind_video ==
    /\ pc = "phase2a"
    /\ queue # <<>>
    /\ LET v == Head(queue)
       IN  IF Stem(v) \in DOMAIN blind_files
           THEN /\ all_blind' = (v :> blind_files[Stem(v)]) @@ all_blind
                /\ queue' = Tail(queue)
                /\ UNCHANGED <<pc, step, exit_code, result, all_analyses,
                               blind_files, invoked, prepared, run_failed,
                               processed, failed, disk>>
           ELSE /\ prepared' = IF args.no_proxy THEN prepared
                               ELSE prepared \cup {<<"phase2a", v>>}
                /\ \E p \in PrepareOutcomes(v) :
                     CASE p = "raise" ->
                            /\ Exit("uncaught")
                            /\ UNCHANGED <<blind_files, invoked, run_failed,
                                           processed, failed, disk>>
                       [] p = "hang" ->
                            /\ pc' = "hung"
                            /\ UNCHANGED <<step, exit_code, queue, result,
                                           all_analyses, all_blind,
                                           blind_files, invoked, run_failed,
                                           processed, failed, disk>>
                       [] p = "ok" ->
                            \E o \in BlindOutcomes :
                              /\ invoked' = invoked \cup {blind_unit(v, 0)}
                              /\ Mutate(with_retry_ledger(Data, blind_unit(v, 0), o))
                              /\ run_failed' = (run_failed \/ o = "exhausted")
                              /\ IF Truthy(with_retry_result(o))
                                 THEN /\ blind_files' =
                                           (Stem(v) :> BlindResult(v, BlindTcs))
                                              @@ blind_files
                                      /\ all_blind' =
                                           (v :> BlindResult(v, BlindTcs))
                                              @@ all_blind
                                 ELSE UNCHANGED <<blind_files, all_blind>>
                              /\ queue' = Tail(queue)
                              /\ UNCHANGED <<pc, step, exit_code, result,
                                             all_analyses>>
    /\ UNCHANGED <<args, GEMINI_API_KEY,
                   videos, corpus, raw_json, synthesis_file, at_start,
                   rerun>>
    /\ pipe_frame

\* phase_analysis, one iteration up to the return of with_retry.
analysis_call ==
    /\ pc = "phase2b"
    /\ step = "call"
    /\ queue # <<>>
    /\ LET v == Head(queue)
           what == analysis_decision(raw_json, Data, v)
       IN  CASE what = "load" ->
                  /\ all_analyses' = (v :> raw_json[Stem(v)]) @@ all_analyses
                  /\ queue' = Tail(queue)
                  /\ UNCHANGED <<pc, step, exit_code, result, all_blind,
                                 invoked, prepared, run_failed, processed,
                                 failed, disk>>
             [] what = "skip" ->
                  /\ queue' = Tail(queue)
                  /\ UNCHANGED <<pc, step, exit_code, result, all_analyses,
                                 all_blind, invoked, prepared, run_failed,
                                 processed, failed, disk>>
             [] what = "analyse" ->
                  /\ prepared' = IF args.no_proxy THEN prepared
                                 ELSE prepared \cup {<<"phase2b", v>>}
                  /\ \E p \in PrepareOutcomes(v) :
                       CASE p = "raise" ->
                              /\ Exit("uncaught")
                              /\ UNCHANGED <<invoked, run_failed, processed,
                                             failed, disk>>
                         [] p = "hang" ->
                              /\ pc' = "hung"
                              /\ UNCHANGED <<step, exit_code, queue, result,
                                             all_analyses, all_blind, invoked,
                                             run_failed, processed, failed,
                                             disk>>
                         [] p = "ok" ->
                              \E o \in AnalysisOutcomes :
                                /\ invoked' = invoked \cup {chunk_unit(v, 0)}
                                /\ Mutate(with_retry_ledger(Data, chunk_unit(v, 0), o))
                                /\ result' = with_retry_result(o)
                                /\ run_failed' = (run_failed \/ o = "exhausted")
                                /\ step' = "store"
                                /\ UNCHANGED <<pc, exit_code, queue,
                                               all_analyses, all_blind>>
    /\ UNCHANGED <<args, GEMINI_API_KEY,
                   videos, corpus, blind_files, raw_json, synthesis_file,
                   at_start, rerun>>
    /\ pipe_frame

\* The raw result is not written.
write_raw_nothing(raw, v) == raw

\* raw_path.write_text(json.dumps(merged, ...)) for the video v.
write_raw(raw, v) == (Stem(v) :> MergedAnalysis(v)) @@ raw

\* phase_analysis, after the loop over the segments: without a result the
\* video is left; with one, the merged analysis is written.
analysis_store ==
    /\ pc = "phase2b"
    /\ step = "store"
    /\ IF Truthy(result)
       THEN /\ raw_json' = write_raw(raw_json, Head(queue))
            /\ step' = "mark"
            /\ UNCHANGED <<queue, result>>
       ELSE /\ queue' = Tail(queue)
            /\ result' = <<>>
            /\ step' = "call"
            /\ UNCHANGED raw_json
    /\ UNCHANGED <<args, GEMINI_API_KEY,
                   pc, exit_code, videos, corpus, blind_files,
                   synthesis_file, invoked, prepared, at_start, rerun,
                   run_failed, all_analyses, all_blind, processed, failed,
                   disk>>
    /\ pipe_frame

\* phase_analysis, the end of the iteration: the video is marked done.
analysis_mark_done ==
    /\ pc = "phase2b"
    /\ step = "mark"
    /\ Mutate(InUnitOrder(mark_done(Data, video_unit(Head(queue)))))
    /\ all_analyses' = (Head(queue) :> MergedAnalysis(Head(queue)))
                          @@ all_analyses
    /\ queue' = Tail(queue)
    /\ result' = <<>>
    /\ step' = "call"
    /\ UNCHANGED <<args, GEMINI_API_KEY,
                   pc, exit_code, videos, corpus, blind_files, raw_json,
                   synthesis_file, invoked, prepared, at_start, rerun,
                   run_failed, all_blind>>
    /\ pipe_frame

\* main from phase 4 on: the raw results that exist are loaded.
load_raw_json ==
    /\ pc = "load_raw"
    /\ all_analyses' =
         [v \in {videos[i] : i \in {k \in DOMAIN videos :
                                        Stem(videos[k]) \in DOMAIN raw_json}}
            |-> raw_json[Stem(v)]]
    /\ Enter(StageAfter(pc, args), videos)
    /\ UNCHANGED <<args, GEMINI_API_KEY,
                   step, exit_code, videos, result, corpus, blind_files,
                   raw_json, synthesis_file, invoked, prepared, at_start,
                   rerun, run_failed, all_blind, processed, failed, disk>>
    /\ pipe_frame

\* Of the names in the dict d that share the stem st, the one the loop over
\* d.items() comes to last: the dict is in the order of the list vids.
LastWithStem(d, vids, st) ==
    LET at == {i \in DOMAIN vids : vids[i] \in DOMAIN d /\ Stem(vids[i]) = st}
    IN  vids[CHOOSE i \in at : \A k \in at : k <= i]

\* main, the enrichment: with both passes at hand the primary analyses are
\* enriched and every raw result is written again.
main_enrich ==
    /\ pc = "enrich"
    /\ IF all_blind # <<>> /\ all_analyses # <<>>
       THEN /\ all_analyses' = enrich_with_blind(all_analyses, all_blind)
            /\ raw_json' =
                 [st \in DOMAIN raw_json
                           \cup {Stem(v) : v \in DOMAIN all_analyses} |->
                    IF \E v \in DOMAIN all_analyses : Stem(v) = st
                    THEN all_analyses'[LastWithStem(all_analyses, videos, st)]
                    ELSE raw_json[st]]
       ELSE UNCHANGED <<all_analyses, raw_json>>
    /\ Enter(StageAfter(pc, args), videos)
    /\ UNCHANGED <<args, GEMINI_API_KEY,
                   step, exit_code, videos, result, corpus, blind_files,
                   synthesis_file, invoked, prepared, at_start, rerun,
                   run_failed, all_blind, processed, failed, disk>>
    /\ pipe_frame

\* phase_export: the exports are rendered from all_analyses.
phase_export ==
    /\ pc = "export"
    /\ Enter(StageAfter(pc, args), videos)
    /\ UNCHANGED <<args, GEMINI_API_KEY,
                   step, exit_code, videos, result, corpus, blind_files,
                   raw_json, synthesis_file, invoked, prepared, at_start,
                   rerun, run_failed, all_analyses, all_blind, processed,
                   failed, disk>>
    /\ pipe_frame

\* phase_synthesis, when there is an analysis, and the end of main.
phase_synthesis ==
    /\ pc = "synthesis"
    /\ IF all_analyses # <<>> /\ ~synthesis_file
       THEN /\ invoked' = invoked \cup {<<"synthesis">>}
            /\ \/ /\ synthesis_file' = TRUE
                  /\ Exit("0")
               \/ /\ Exit("uncaught")
                  /\ UNCHANGED synthesis_file
       ELSE /\ Exit("0")
            /\ UNCHANGED <<invoked, synthesis_file>>
    /\ UNCHANGED <<args, GEMINI_API_KEY,
                   videos, corpus, blind_files, raw_json, prepared,
                   at_start, rerun, run_failed, processed, failed, disk>>
    /\ pipe_frame

\* The process is killed inside an iteration of phase_analysis, after
\* with_retry has returned, or while it hangs.
kill_run ==
    /\ pc = "hung" \/ (pc = "phase2b" /\ step \in {"store", "mark"})
    /\ Exit("killed")
    /\ UNCHANGED <<args, GEMINI_API_KEY,
                   videos, corpus, blind_files, raw_json, synthesis_file,
                   invoked, prepared, at_start, rerun, run_failed, processed,
                   failed, disk>>
    /\ pipe_frame

\* Between two runs the user removes a raw result; what is known of the
\* last run no longer describes the work directory.
user_deletes_raw ==
    /\ pc \in {"idle", "exited"}
    /\ \E st \in DOMAIN raw_json :
         raw_json' = [x \in DOMAIN raw_json \ {st} |-> raw_json[x]]
    /\ pc' = "idle"
    /\ exit_code' = "none"
    /\ args' = PlainArgs(args.phase, args.blind, args.no_proxy)
    /\ GEMINI_API_KEY' = TRUE
    /\ videos' = <<>>
    /\ invoked' = {}
    /\ prepared' = {}
    /\ at_start' = <<>>
    /\ rerun' = FALSE
    /\ run_failed' = FALSE
    /\ UNCHANGED <<step, queue, result, corpus, blind_files, synthesis_file,
                   all_analyses, all_blind, processed, failed, disk>>
    /\ pipe_frame

\* ================================ analyze.py: upload, inference, delete

\* Longest wait in _upload_video's polling loop.
MaxPolls == 2

\* The unit operations that upload a video.
UnitOps == {"preanalyze_video", "analyze_segment", "analyze_segment_blind"}

\* What client.files.upload and client.files.get answer: a file in one of
\* three states, or an exception.
FileStates == {"PROCESSING", "ACTIVE", "FAILED"}

UploadIdle ==
    /\ u_pc = "idle"
    /\ u_op = "preanalyze_video"
    /\ u_attempt = 0
    /\ u_state = "none"
    /\ u_polls = 0
    /\ u_pending = <<>>
    /\ u_remote = {}
    /\ u_uploaded = {}
    /\ u_delete_tried = {}
    /\ u_outcomes = <<>>

UploadInit ==
    /\ u_pc = "idle"
    /\ u_op \in UnitOps
    /\ u_attempt = 0
    /\ u_state = "none"
    /\ u_polls = 0
    /\ u_pending = <<>>
    /\ u_remote = {}
    /\ u_uploaded = {}
    /\ u_delete_tried = {}
    /\ u_outcomes = <<>>

upload_frame ==
    UNCHANGED <<seg_vars, ledger_vars, retry_vars, merge_vars, enrich_vars,
                pipe_vars, proxy_vars, parse_vars>>

\* The attempt is over, raising e or returning r.
AttemptEnds(how) ==
    /\ u_pc' = "ended"
    /\ u_outcomes' = Append(u_outcomes, how)
    /\ u_state' = "none"
    /\ u_polls' = 0
    /\ u_pending' = <<>>

\* The try block is left, returning or raising: the finally clause runs next.
try_leaves(how) ==
    /\ u_pc' = "finally"
    /\ u_pending' = how
    /\ UNCHANGED <<u_state, u_polls, u_outcomes, u_remote, u_delete_tried>>

\* with_retry calls fn, the first time or after a failed attempt: _client()
\* and the choice of the model, where analyze_segment_blind raises
\* AttributeError, config.MODEL_BLIND_PASS being undefined.
attempt_begin ==
    /\ \/ u_pc = "idle"
       \/ /\ u_pc = "ended"
          /\ Last(u_outcomes)[1] = "raised"
          /\ u_attempt < MAX_RETRIES
    /\ u_attempt' = u_attempt + 1
    /\ IF u_op = "analyze_segment_blind"
       THEN AttemptEnds(<<"raised", "AttributeError">>)
       ELSE /\ u_pc' = "upload"
            /\ UNCHANGED <<u_state, u_polls, u_pending, u_outcomes>>
    /\ UNCHANGED <<u_op, u_remote, u_uploaded, u_delete_tried>>
    /\ upload_frame

\* _upload_video: client.files.upload.
upload_video_upload ==
    /\ u_pc = "upload"
    /\ \/ /\ AttemptEnds(<<"raised", "upload">>)
          /\ UNCHANGED <<u_remote, u_uploaded>>
       \/ \E st \in FileStates :
            /\ u_state' = st
            /\ u_remote' = u_remote \cup {u_attempt}
            /\ u_uploaded' = u_uploaded \cup {u_attempt}
            /\ u_pc' = "poll"
            /\ UNCHANGED <<u_polls, u_pending, u_outcomes>>
    /\ UNCHANGED <<u_op, u_attempt, u_delete_tried>>
    /\ upload_frame

\* _upload_video: one turn of the loop that waits while the state is
\* PROCESSING.
upload_video_poll ==
    /\ u_pc = "poll"
    /\ u_state = "PROCESSING"
    /\ u_polls < MaxPolls
    /\ \/ AttemptEnds(<<"raised", "get">>)
       \/ \E st \in FileStates :
            /\ u_state' = st
            /\ u_polls' = u_polls + 1
            /\ UNCHANGED <<u_pc, u_pending, u_outcomes>>
    /\ UNCHANGED <<u_op, u_attempt, u_remote, u_uploaded, u_delete_tried>>
    /\ upload_frame

\* _upload_video after the loop: RuntimeError on FAILED, else the file_obj
\* is returned and the caller enters its try block.
upload_video_return ==
    /\ u_pc = "poll"
    /\ u_state # "PROCESSING"
    /\ IF u_state = "FAILED"
       THEN AttemptEnds(<<"raised", "FAILED">>)
       ELSE /\ u_pc' = "generate"
            /\ UNCHANGED <<u_state, u_polls, u_pending, u_outcomes>>
    /\ UNCHANGED <<u_op, u_attempt, u_remote, u_uploaded, u_delete_tried>>
    /\ upload_frame

\* client.models.generate_content, inside try.
generate_content ==
    /\ u_pc = "generate"
    /\ \/ /\ u_pc' = "parse"
          /\ UNCHANGED <<u_state, u_polls, u_pending, u_outcomes, u_remote,
                         u_delete_tried>>
       \/ try_leaves(<<"raised", "inference">>)
    /\ UNCHANGED <<u_op, u_attempt, u_uploaded>>
    /\ upload_frame

\* _parse_json_response, inside try, and the return.
parse_json_response ==
    /\ u_pc = "parse"
    /\ \/ try_leaves(<<"returned", "result">>)
       \/ try_leaves(<<"raised", "malformed">>)
    /\ UNCHANGED <<u_op, u_attempt, u_uploaded>>
    /\ upload_frame

\* finally: _delete_file, whose own exception is swallowed.
delete_file ==
    /\ u_pc = "finally"
    /\ u_delete_tried' = u_delete_tried \cup {u_attempt}
    /\ \/ u_remote' = u_remote \ {u_attempt}
       \/ UNCHANGED u_remote
    /\ AttemptEnds(u_pending)
    /\ UNCHANGED <<u_op, u_attempt, u_uploaded>>
    /\ upload_frame

\* with_retry returns: the result, or None after the last attempt.
with_retry_return ==
    /\ u_pc = "ended"
    /\ Last(u_outcomes)[1] = "returned" \/ u_attempt = MAX_RETRIES
    /\ u_pc' = "returned"
    /\ UNCHANGED <<u_op, u_attempt, u_state, u_polls, u_pending, u_remote,
                   u_uploaded, u_delete_tried, u_outcomes>>
    /\ upload_frame

\* ============================================ preprocess.py: create_proxy

\* The most ffmpeg runs followed for one proxy path.
MaxTranscodes == 2

\* The arguments of create_proxy: the stem of video_path, output_dir and
\* start_offset_s.
ProxyStems == {"a", "a_chunk001"}
ProxyDirs == {"proxies"}
ProxyOffsets == {0, 2970}
ProxyArgs == ProxyStems \X ProxyDirs \X ProxyOffsets

\* output_dir / f"{video_path.stem}{suffix}_proxy.mp4", the suffix being
\* f"_offset{start_offset_s}" for an offset above 0 and empty otherwise.
proxy_path(stem, dir, offset) ==
    <<dir, stem, IF offset > 0 THEN <<"_offset", offset>> ELSE <<>>,
      "_proxy.mp4">>
ProxyPaths == {proxy_path(a[1], a[2], a[3]) : a \in ProxyArgs}

\* How an ffmpeg run ends: with the file written; failing with no file; or
\* failing with part of the file written.
FfmpegOutcomes == {"ok", "fail", "fail_partial"}

\* "if proxy_path.exists():"
proxy_exists_never(path, files) == FALSE

proxy_exists(path, files) == path \in files

ProxyIdle ==
    /\ p_files = {}
    /\ p_runs = <<>>
    /\ p_deleted = {}
    /\ p_last = <<>>

ProxyInit ==
    /\ p_files = {}
    /\ p_runs = [p \in ProxyPaths |-> 0]
    /\ p_deleted = {}
    /\ p_last = <<>>

proxy_frame ==
    UNCHANGED <<seg_vars, ledger_vars, retry_vars, merge_vars, enrich_vars,
                pipe_vars, upload_vars, parse_vars>>

\* create_proxy(video_path, output_dir, start_offset_s).
create_proxy ==
    \E a \in ProxyArgs :
      LET path == proxy_path(a[1], a[2], a[3])
      IN  /\ IF proxy_exists(path, p_files)
             THEN /\ p_last' = [args |-> a, ran |-> FALSE, ret |-> <<path>>]
                  /\ UNCHANGED <<p_files, p_runs>>
             ELSE /\ p_runs[path] < MaxTranscodes
                  /\ p_runs' = [p_runs EXCEPT ![path] = @ + 1]
                  /\ \E o \in FfmpegOutcomes :
                       /\ p_files' = IF o = "fail" THEN p_files
                                     ELSE p_files \cup {path}
                       /\ p_last' = [args |-> a, ran |-> TRUE,
                                     ret |-> IF o = "ok" THEN <<path>>
                                             ELSE <<>>]
          /\ UNCHANGED p_deleted
          /\ proxy_frame

\* Someone removes a proxy file.
proxy_deleted ==
    /\ \E path \in p_files :
         /\ p_files' = p_files \ {path}
         /\ p_deleted' = p_deleted \cup {path}
    /\ UNCHANGED <<p_runs, p_last>>
    /\ proxy_frame

\* ======================================= analyze.py: _parse_json_response

\* The longest response text followed.
MaxText == 5

\* A response text is a sequence of these: the four brackets, a line break
\* (the only white space), a markdown fence of three backquotes, and "t" for any other
\* character.
Chars == {"{", "}", "[", "]", "LF", "FENCE", "t"}
Texts == UNION {[1..n -> Chars] : n \in 0..MaxText}

\* What json.loads returns for an object and for an array.
JsonObject == [kind |-> "object", items |-> <<>>]
JsonArray(items) == [kind |-> "array", items |-> items]

\* str.strip
RECURSIVE lstrip(_)
lstrip(s) == IF s # <<>> /\ s[1] = "LF" THEN lstrip(Tail(s)) ELSE s
RECURSIVE rstrip(_)
rstrip(s) ==
    IF s # <<>> /\ s[Len(s)] = "LF" THEN rstrip(SubSeq(s, 1, Len(s) - 1))
    ELSE s
strip(s) == rstrip(lstrip(s))

\* str.find and str.rfind of one character: a 0-based index, or -1.
find(s, c) ==
    IF \E i \in DOMAIN s : s[i] = c
    THEN (CHOOSE i \in DOMAIN s :
            s[i] = c /\ \A k \in 1..(i - 1) : s[k] # c) - 1
    ELSE -1
rfind(s, c) ==
    IF \E i \in DOMAIN s : s[i] = c
    THEN (CHOOSE i \in DOMAIN s :
            s[i] = c /\ \A k \in (i + 1)..Len(s) : s[k] # c) - 1
    ELSE -1

\* text.split("\n") and "\n".join(lines)
RECURSIVE split(_)
split(s) ==
    LET i == find(s, "LF")
    IN  IF i = -1 THEN <<s>>
        ELSE <<SubSeq(s, 1, i)>> \o split(SubSeq(s, i + 2, Len(s)))
RECURSIVE join(_)
join(lines) ==
    IF lines = <<>> THEN <<>>
    ELSE IF Len(lines) = 1 THEN lines[1]
    ELSE lines[1] \o <<"LF">> \o join(Tail(lines))

\* json.loads of a text over Chars: <<the value>>, or <<>> when it raises.
\* Without a comma or a quote in Chars the JSON texts are the empty object,
\* the empty array and the array of one JSON text, white space allowed
\* around each.
RECURSIVE json_loads(_)
json_loads(s) ==
    LET t == strip(s)
        inner == strip(SubSeq(t, 2, Len(t) - 1))
    IN  IF Len(t) < 2 THEN <<>>
        ELSE IF t[1] = "{" /\ t[Len(t)] = "}"
        THEN IF inner = <<>> THEN <<JsonObject>> ELSE <<>>
        ELSE IF t[1] = "[" /\ t[Len(t)] = "]"
        THEN IF inner = <<>> THEN <<JsonArray(<<>>)>>
             ELSE LET p == json_loads(inner)
                  IN  IF p = <<>> THEN <<>> ELSE <<JsonArray(p)>>
        ELSE <<>>

\* The markdown fence is taken off: the first line, and the last line when
\* it is a fence.
strip_fence(text) ==
    IF text # <<>> /\ text[1] = "FENCE"
    THEN LET lines == split(text)
         IN  join(IF strip(Last(lines)) = <<"FENCE">>
                  THEN SubSeq(lines, 2, Len(lines) - 1)
                  ELSE Tail(lines))
    ELSE text

\* start: the least index of an opening bracket, -1 without one.
span_start(text) ==
    LET found == {find(text, c) : c \in {d \in {"{", "["} : find(text, d) # -1}}
    IN  IF found = {} THEN -1
        ELSE CHOOSE i \in found : \A k \in found : i <= k

\* end: at the first closing bracket.
span_end_first(text) ==
    LET found == {find(text, c) : c \in {d \in {"}", "]"} : find(text, d) # -1}}
    IN  IF found = {} THEN -1
        ELSE CHOOSE i \in found : \A k \in found : i <= k

\* end = max(text.rfind("}"), text.rfind("]"))
span_end(text) ==
    LET a == rfind(text, "}")
        b == rfind(text, "]")
    IN  IF a > b THEN a ELSE b

\* _parse_json_response(text): the value returned, or the exception raised.
parse_json(text0) ==
    LET text == strip_fence(strip(text0))
        st == span_start(text)
        en == span_end(text)
    IN  IF st = -1 \/ en = -1
        THEN [ok |-> FALSE, val |-> <<>>, err |-> "ValueError"]
        ELSE LET p == json_loads(SubSeq(text, st + 1, en + 1))
             IN  IF p = <<>>
                 THEN [ok |-> FALSE, val |-> <<>>, err |-> "JSONDecodeError"]
                 ELSE [ok |-> TRUE, val |-> p, err |-> "none"]

\* What the model answers when it is asked again: the same text, or an
\* object after a word.
ReAsked(text) == {text, <<"t", "{", "}">>}

ParseIdle ==
    /\ j_pc = "idle"
    /\ j_text = <<>>
    /\ j_attempt = 0
    /\ j_log = <<>>
    /\ j_result = <<>>

ParseInit ==
    /\ j_pc = "running"
    /\ j_text \in Texts
    /\ j_attempt = 1
    /\ j_log = <<>>
    /\ j_result = <<>>

\* One iteration of with_retry's loop around a unit operation whose remote
\* call has answered j_text: _parse_json_response returns, and so does
\* with_retry, or it raises, which with_retry catches.
parse_attempt ==
    /\ j_pc = "running"
    /\ LET r == parse_json(j_text)
       IN  /\ j_log' = Append(j_log, [text |-> j_text, out |-> r])
           /\ IF r.ok
              THEN /\ j_result' = <<"result", r.val[1]>>
                   /\ j_pc' = "returned"
                   /\ UNCHANGED <<j_attempt, j_text>>
              ELSE IF more_attempts(j_attempt)
              THEN /\ j_attempt' = j_attempt + 1
                   /\ j_text' \in ReAsked(j_text)
                   /\ UNCHANGED <<j_pc, j_result>>
              ELSE /\ j_result' = <<"None">>
                   /\ j_pc' = "returned"
                   /\ UNCHANGED <<j_attempt, j_text>>
    /\ UNCHANGED <<seg_vars, ledger_vars, retry_vars, merge_vars, enrich_vars,
                   pipe_vars, upload_vars, proxy_vars>>

ExtIdle ==
    /\ MergeIdle /\ EnrichIdle /\ PipeIdle /\ UploadIdle /\ ProxyIdle /\ ParseIdle
    /\ ParseIdle

\* ============================================================ specifications

InitSegmenter == SegInit /\ LedgerIdle /\ RetryIdle /\ ExtIdle

NextSegmenter == prepare_video \/ chunk_video

SpecSegmenter == InitSegmenter /\ [][NextSegmenter]_vars

InitLedger == SegIdle /\ LedgerIdle /\ RetryIdle /\ ExtIdle

NextLedger == CallMarkDone \/ CallMarkFailed \/ Restart \/ CrashInSave

SpecLedger == InitLedger /\ [][NextLedger]_vars

NextRetry ==
    \/ with_retry_call
    \/ with_retry_attempt
    \/ CallMarkDone
    \/ Restart
    \/ CrashInSave

SpecRetry == InitLedger /\ [][NextRetry]_vars

InitMerge ==
    /\ SegIdle /\ LedgerIdle /\ RetryIdle /\ MergeInit /\ EnrichIdle /\ PipeIdle
    /\ UploadIdle /\ ProxyIdle /\ ParseIdle

NextMerge == merge_call

SpecMerge == InitMerge /\ [][NextMerge]_vars

InitEnrich ==
    /\ SegIdle /\ LedgerIdle /\ RetryIdle /\ MergeIdle /\ EnrichInit /\ PipeIdle
    /\ UploadIdle /\ ProxyIdle /\ ParseIdle

NextEnrich == enrich_call

SpecEnrich == InitEnrich /\ [][NextEnrich]_vars

InitUpload ==
    /\ SegIdle /\ LedgerIdle /\ RetryIdle /\ MergeIdle /\ EnrichIdle /\ PipeIdle
    /\ UploadInit /\ ProxyIdle /\ ParseIdle

NextUpload ==
    \/ attempt_begin
    \/ upload_video_upload
    \/ upload_video_poll
    \/ upload_video_return
    \/ generate_content
    \/ parse_json_response
    \/ delete_file
    \/ with_retry_return

SpecUpload == InitUpload /\ [][NextUpload]_vars

InitProxy ==
    /\ SegIdle /\ LedgerIdle /\ RetryIdle /\ MergeIdle /\ EnrichIdle /\ PipeIdle
    /\ UploadIdle /\ ProxyInit /\ ParseIdle

NextProxy == create_proxy \/ proxy_deleted

SpecProxy == InitProxy /\ [][NextProxy]_vars

InitParse ==
    /\ SegIdle /\ LedgerIdle /\ RetryIdle /\ MergeIdle /\ EnrichIdle /\ PipeIdle
    /\ UploadIdle /\ ProxyIdle /\ ParseInit

NextParse == parse_attempt

SpecParse == InitParse /\ [][NextParse]_vars

InitPipeline ==
    /\ SegIdle /\ LedgerIdle /\ RetryIdle /\ MergeIdle /\ EnrichIdle /\ PipeInit
    /\ UploadIdle /\ ProxyIdle /\ ParseIdle
    /\ tree = "plain"

NextPipeline ==
    \/ main_begin
    \/ phase_end
    \/ preanalysis_video
    \/ blind_video
    \/ analysis_call
    \/ analysis_store
    \/ analysis_mark_done
    \/ load_raw_json
    \/ main_enrich
    \/ phase_export
    \/ phase_synthesis
    \/ kill_run
    \/ user_deletes_raw

SpecPipeline == InitPipeline /\ [][NextPipeline]_vars

\* The pipeline over a source directory that holds a.avi beside a.mp4.
InitTwins ==
    /\ SegIdle /\ LedgerIdle /\ RetryIdle /\ MergeIdle /\ EnrichIdle /\ PipeInit
    /\ UploadIdle /\ ProxyIdle /\ ParseIdle
    /\ tree = "twins"

SpecTwins == InitTwins /\ [][NextPipeline]_vars

\* The pipeline from phase 1, without the secondary pass, over a source
\* directory that holds a.mp4 and preanalysis_a.mp4.
InitPrefixed ==
    /\ SegIdle /\ LedgerIdle /\ RetryIdle /\ MergeIdle /\ EnrichIdle /\ PipeInit
    /\ UploadIdle /\ ProxyIdle /\ ParseIdle
    /\ tree = "prefixed"
    /\ args.phase = 1
    /\ ~args.blind

NextPrefixed ==
    \/ main_begin
    \/ phase_end
    \/ preanalysis_video
    \/ analysis_call
    \/ analysis_store
    \/ analysis_mark_done
    \/ main_enrich
    \/ phase_export
    \/ phase_synthesis
    \/ kill_run
    \/ user_deletes_raw

SpecPrefixed == InitPrefixed /\ [][NextPrefixed]_vars

\* ================================================= claims on the segmenter

\* The chunk windows chunk_video has emitted so far, as <<start, end>> pairs.
Windows == [i \in 1..Len(chunks) |-> <<chunks[i].start_s, chunks[i].end_s>>]

\* A list of records with start_s and end_s covers [0, d) without a gap.
Covers(ws, d) ==
    /\ ws # <<>>
    /\ ws[1].start_s = 0
    /\ \A i \in 1..(Len(ws) - 1) : ws[i + 1].start_s <= ws[i].end_s
    /\ ws[Len(ws)].end_s = d

\* C1: chunk_video ends with the one final chunk whose end is the duration:
\* a chunk that ends at the duration is the last chunk of the list, no
\* further chunk is emitted after it.
C1_FinalChunkIsLast ==
    \A i \in 1..Len(chunks) : chunks[i].end_s = duration => i = Len(chunks)

\* C2: the windows of prepare_video cover [0, duration) without a gap and are
\* what it returns: the single unit of a short video, and for a long video the
\* chunk list, which is returned once it covers [0, duration).
C2_PrepareVideoCovers ==
    /\ seg_pc = "returned" => Covers(segments, duration)
    /\ Covers(chunks, duration) => seg_pc \in {"returned", "raised"}

C4_ChunkShape ==
    /\ \A i \in 1..Len(chunks) :
         /\ chunks[i].end_s - chunks[i].start_s <= CHUNK_DURATION_S
         /\ chunks[i].index = i
         /\ chunks[i].start_s % (CHUNK_DURATION_S - CHUNK_OVERLAP_S) = 0
    /\ \A i \in 1..(Len(chunks) - 1) :
         chunks[i + 1].start_s = chunks[i].end_s - CHUNK_OVERLAP_S

\* ==================================================== claims on with_retry

\* Every call of fn in the current call of with_retry raised.
AllFailed == \A i \in DOMAIN r_log : ~r_log[i].ok

\* C5: an operation that fails on every attempt is called exactly MAX_RETRIES
\* times, with one sleep from RETRY_BACKOFF, in order, between consecutive
\* attempts and none after the last; with_retry then has called mark_failed
\* once, the unit's failure record holds the last error text and attempts =
\* MAX_RETRIES, and None is returned.
C5_RetryBound ==
    AllFailed =>
      /\ r_pc = "running" =>
           /\ Len(r_log) < MAX_RETRIES
           /\ sleeps = SubSeq(RETRY_BACKOFF, 1, Len(r_log))
           /\ r_marked_failed = 0
      /\ r_pc = "returned" =>
           /\ Len(r_log) = MAX_RETRIES
           /\ sleeps = SubSeq(RETRY_BACKOFF, 1, MAX_RETRIES - 1)
           /\ r_marked_failed = 1
           /\ RecordsOf(failed, r_name) =
                <<[file |-> r_name, error |-> Last(r_log).val,
                   attempts |-> MAX_RETRIES]>>
           /\ r_result = <<"None">>

C5_Witness ==
    /\ r_pc = "returned"
    /\ AllFailed
    /\ Len(r_log) = MAX_RETRIES
    /\ r_log[1].val # Last(r_log).val

\* C6: when fn first succeeds on attempt k, fn was called exactly k times
\* (k <= MAX_RETRIES, the k-1 earlier calls raised and no call follows the
\* success), the unit is done in the ledger and in its file and has no
\* failure record, the result of fn is returned and mark_failed was not
\* called.
C6_SuccessOnAttemptK ==
    /\ r_pc = "running" => AllFailed
    /\ (r_pc = "returned" /\ Last(r_log).ok) =>
         /\ Len(r_log) \in 1..MAX_RETRIES
         /\ \A i \in 1..(Len(r_log) - 1) : ~r_log[i].ok
         /\ is_done(Data, r_name)
         /\ RecordsOf(failed, r_name) = <<>>
         /\ load(disk) = Data
         /\ r_result = <<"result", Last(r_log).val>>
         /\ r_marked_failed = 0

C6_Witness ==
    /\ r_pc = "returned"
    /\ Last(r_log).ok
    /\ Len(r_log) = MAX_RETRIES
    /\ last.was_failed

\* ================================================== claims on the ledger

\* The failure records the ledger should hold for n: the one of the last
\* mark_failed(n, ...) that no mark_done(n) followed.
Expected(n) ==
    IF recent[n] = <<>> THEN <<>>
    ELSE <<[file |-> n, error |-> recent[n][1], attempts |-> recent[n][2]]>>

\* C7: no name is both in processed and in a failure record.
C7_LedgerExclusive ==
    \A n \in Names : ~(is_done(Data, n) /\ RecordsOf(failed, n) # <<>>)

\* C8: after mark_done(X), X occurs exactly once in processed and no failure
\* record names X; a second mark_done(X) would change neither the ledger nor
\* its file; the failure records of the other names are as they were.
C8_MarkDoneIdempotent ==
    last.op = "mark_done" =>
      /\ Count(processed, last.name) = 1
      /\ RecordsOf(failed, last.name) = <<>>
      /\ mark_done(Data, last.name) = Data
      /\ save(mark_done(Data, last.name)) = disk
      /\ \A n \in Names \ {last.name} : RecordsOf(failed, n) = Expected(n)

C8_Witness ==
    /\ last.op = "mark_done"
    /\ last.was_failed
    /\ last.was_done
    /\ \E n \in Names \ {last.name} : RecordsOf(failed, n) # <<>>

\* C9: on a tracker, the failed list holds at most one record per name, and
\* that record carries the error and attempts of the most recent mark_failed
\* for the name; a mark_failed for one name leaves the others' records alone.
C9_MarkFailedUpsert ==
    last.op # "load_error" =>
      \A n \in Names :
         /\ Len(RecordsOf(failed, n)) <= 1
         /\ RecordsOf(failed, n) = Expected(n)

C9_Witness ==
    /\ last.op = "mark_failed"
    /\ last.was_failed
    /\ failed[1].file = last.name
    /\ Len(failed) = MaxNames

\* C10: when mark_done or mark_failed has returned the ledger file holds the
\* tracker's state, and a ProgressTracker constructed after a crash at any
\* later point finds that state: the same processed names and failure
\* records as the tracker had before the crash.
C10_Durable ==
    [][/\ last'.op \in {"mark_done", "mark_failed"} =>
            load(disk') = [processed |-> processed', failed |-> failed']
       /\ last'.op \in {"load", "load_error"} =>
            /\ processed' = processed
            /\ failed' = failed]_vars


\* ==================================================== claims on the merge

\* All segments of all results, in chunk order.
RECURSIVE AllSegments(_)
AllSegments(crs) ==
    IF crs = <<>> THEN <<>> ELSE Head(crs).segments \o AllSegments(Tail(crs))

\* The positions of s whose tc_start occurs at no earlier position.
FirstPositions(s) ==
    {k \in DOMAIN s : \A j \in 1..(k - 1) : s[j].tc_start # s[k].tc_start}

\* Some tc_start occurs in more than one segment of s.
HasRepeat(s) == \E j, k \in DOMAIN s : j < k /\ s[j].tc_start = s[k].tc_start

Returned == merged # <<>>

\* C16: for two or more chunk results the merged segments are the
\* concatenation of all chunks' segments in chunk order, without every
\* segment whose tc_start occurred earlier in it: first occurrences are
\* kept, in their order, whatever the later ones say.
C16_MergeKeepsFirst ==
    (Returned /\ Len(chunk_results) >= 2) =>
        LET all == AllSegments(chunk_results)
        IN  merged[1].segments =
                SelectSeq(all, LAMBDA x :
                              \E k \in FirstPositions(all) : all[k] = x)

\* Two chunks report the same tc_start and the merge has dropped the later.
C16_Witness ==
    /\ Returned
    /\ Len(chunk_results) >= 2
    /\ \E a \in DOMAIN chunk_results[1].segments,
          b \in DOMAIN chunk_results[2].segments :
         /\ chunk_results[1].segments[a].tc_start
              = chunk_results[2].segments[b].tc_start
         /\ \E k \in DOMAIN merged[1].segments :
              merged[1].segments[k] = chunk_results[1].segments[a]
         /\ \A k \in DOMAIN merged[1].segments :
              merged[1].segments[k] # chunk_results[2].segments[b]

\* C17: merging a one-element list returns that element as it is: same
\* profile, same segments in the same order, same observations, same other
\* fields.
C17_SingleUnchanged ==
    (Returned /\ Len(chunk_results) = 1) => merged[1] = chunk_results[1]

\* A one-element list whose segments repeat a tc_start has been merged.
C17_Witness ==
    /\ Returned
    /\ Len(chunk_results) = 1
    /\ HasRepeat(chunk_results[1].segments)

\* C18 as stated: for a list of any length >= 1 the merged segments have
\* pairwise distinct tc_start, and there are at most as many as the chunks
\* have together, fewer when some tc_start occurs more than once.
C18_DistinctAnyLength ==
    Returned =>
        LET all == AllSegments(chunk_results)
            out == merged[1].segments
        IN  /\ ~HasRepeat(out)
            /\ Len(out) <= Len(all)
            /\ HasRepeat(all) => Len(out) < Len(all)

\* C18, amended: the same for a list of two or more results; a one-element
\* list comes back with all its segments, repeated tc_start included.
C18_DistinctFromTwo ==
    Returned =>
        LET all == AllSegments(chunk_results)
            out == merged[1].segments
        IN  IF Len(chunk_results) >= 2
            THEN /\ ~HasRepeat(out)
                 /\ Len(out) <= Len(all)
                 /\ HasRepeat(all) => Len(out) < Len(all)
            ELSE out = all

\* Two or more results, one of which repeats a tc_start within itself.
C18_Witness ==
    /\ Returned
    /\ Len(chunk_results) >= 2
    /\ \E i \in DOMAIN chunk_results : HasRepeat(chunk_results[i].segments)
    /\ Len(merged[1].segments) < Len(AllSegments(chunk_results))

\* C19: for two or more chunk results the merged profile is the first
\* result's profile and the merged global observations are the last
\* result's, whatever the other results report.
C19_ProfileFirstObservationsLast ==
    (Returned /\ Len(chunk_results) >= 2) =>
        /\ merged[1].video_profil = chunk_results[1].video_profil
        /\ merged[1].observations_globales
             = chunk_results[Len(chunk_results)].observations_globales

\* Two or more results have been merged and the first result's observations
\* are not the merged ones.
C19_Witness ==
    /\ Returned
    /\ Len(chunk_results) >= 2
    /\ merged[1].observations_globales
         # chunk_results[1].observations_globales
    /\ merged[1].video_profil
         # chunk_results[Len(chunk_results)].video_profil


\* ============================================== claims on the enrichment

\* Primary segment k of video v has some secondary segment of the same
\* video with exactly its tc_start, which is not empty.
HasMatch(v, k) ==
    LET tc == before[1][v].segments[k].tc_start
    IN  /\ tc # ""
        /\ v \in DOMAIN all_blind
        /\ \E j \in DOMAIN all_blind[v].segments :
             all_blind[v].segments[j].tc_start = tc

\* C20: enrich_with_blind changes a primary segment only when a secondary
\* segment of the same video has exactly its non-empty tc_start; every
\* other primary segment, and everything else of the analysis, is as it
\* was, so a secondary pass sharing no tc_start changes nothing.
C20_EnrichOnlyOnMatch ==
    before # <<>> =>
        /\ DOMAIN all_analyses = DOMAIN before[1]
        /\ \A v \in DOMAIN all_analyses :
             /\ DOMAIN all_analyses[v].segments = DOMAIN before[1][v].segments
             /\ \A k \in DOMAIN all_analyses[v].segments :
                  all_analyses[v].segments[k] # before[1][v].segments[k]
                      => HasMatch(v, k)
             /\ (\A k \in DOMAIN before[1][v].segments : ~HasMatch(v, k))
                  => all_analyses[v] = before[1][v]

\* One video's secondary pass matches and its segment has changed, while the
\* other video, whose own secondary pass shares no tc_start with it, is
\* unchanged although it reports the same tc_start as the first.
C20_Witness ==
    /\ before # <<>>
    /\ \E v, w \in Videos :
         /\ v # w
         /\ \E k \in DOMAIN before[1][v].segments :
              /\ HasMatch(v, k)
              /\ all_analyses[v].segments[k] # before[1][v].segments[k]
              /\ ~HasMatch(w, k)
         /\ w \in DOMAIN all_blind
         /\ all_blind[w].segments # <<>>
         /\ all_analyses[w] = before[1][w]

\* ================================================ claims on the pipeline

\* The step is the beginning of a run.
BeginStep == pc \in {"idle", "exited"} /\ pc' # "idle"

\* C11: once a unit name (of a pre-analysis, of a chunk of the blind or of
\* the primary pass, or a video) is in the ledger's processed list, no later
\* run over the work directory invokes that unit's operation again, a run
\* that resumes a killed one included.
C11_DoneUnitNotInvokedAgain ==
    [][\A u \in invoked' \ invoked :
          /\ ~is_done(Data, u)
          /\ \A v \in Videos :
               u = chunk_unit(v, 0) => ~is_done(Data, video_unit(v))]_vars

\* C12: a run in retry-failed mode takes exactly the input videos a unit of
\* which has a failure record left by with_retry, and removes their failure
\* records before it works on them.
C12_RetryFailedSelects ==
    [][(BeginStep /\ args'.retry_failed) =>
          /\ videos' = SelectSeq(VideoList,
                                 LAMBDA v : v \in VideosWithFailedUnit(Data))
          /\ \A i \in DOMAIN videos' :
               videos'[i] \notin
                   VideosWithFailedUnit([processed |-> processed',
                                         failed |-> failed'])]_vars

\* C13: a video whose artifact for a phase exists (its key in the corpus
\* map, its secondary-pass file, its raw result) gets no transcode and no
\* unit operation in that phase, and the phase loads the artifact, whatever
\* the ledger says of the video.
C13_ArtifactFirst ==
    [][/\ \A v \in Videos :
            /\ (preanalysis_unit(v) \in invoked' \ invoked
                   \/ <<"phase1", v>> \in prepared' \ prepared)
                 => v \notin corpus
            /\ (blind_unit(v, 0) \in invoked' \ invoked
                   \/ <<"phase2a", v>> \in prepared' \ prepared)
                 => Stem(v) \notin DOMAIN blind_files
            /\ (chunk_unit(v, 0) \in invoked' \ invoked
                   \/ <<"phase2b", v>> \in prepared' \ prepared)
                 => Stem(v) \notin DOMAIN raw_json
       /\ pc = "phase1" => corpus \subseteq corpus'
       /\ (pc = "phase2a" /\ queue # <<>>
             /\ Stem(Head(queue)) \in DOMAIN blind_files)
            => /\ Head(queue) \in DOMAIN all_blind'
               /\ all_blind'[Head(queue)] = blind_files[Stem(Head(queue))]
               /\ invoked' = invoked /\ prepared' = prepared
       /\ (pc = "phase2b" /\ step = "call" /\ queue # <<>>
             /\ Stem(Head(queue)) \in DOMAIN raw_json)
            => /\ Head(queue) \in DOMAIN all_analyses'
               /\ all_analyses'[Head(queue)] = raw_json[Stem(Head(queue))]
               /\ invoked' = invoked /\ prepared' = prepared]_vars

\* Phase 2b has loaded the raw result of a video that the ledger does not
\* list as processed, and has invoked nothing for it.
C13_Witness ==
    /\ pc = "phase2b"
    /\ \E v \in Videos :
         /\ v \in DOMAIN all_analyses
         /\ Stem(v) \in at_start.raw
         /\ ~is_done(Data, video_unit(v))
         /\ chunk_unit(v, 0) \notin invoked
         /\ <<"phase2b", v>> \notin prepared

\* A run from phase 3 or earlier, not a dry run, has come to its end over a
\* work directory where a's raw result was there and b's was not.
ResumedOver(a, b) ==
    /\ pc = "exited"
    /\ exit_code = "0"
    /\ ~args.retry_failed
    /\ ~args.dry_run
    /\ args.phase <= 3
    /\ a # b
    /\ Stem(a) \in at_start.raw
    /\ Stem(b) \notin at_start.raw

\* The unit operations invoked for video v that call the remote model: the
\* secondary pass raises before it uploads anything.
RemoteCallsFor(v) == invoked \cap {preanalysis_unit(v), chunk_unit(v, 0)}

C15_RerunIssuesNothing ==
    [][rerun' =>
          /\ invoked' = {}
          /\ corpus' = corpus
          /\ blind_files' = blind_files
          /\ raw_json' = raw_json]_vars

\* ================================== claims on the enrichment, continued

\* The names of the three fields enrich_with_blind sets.
BlindFieldNames ==
    {"blind_ce_qui_me_retient", "blind_tension_visible",
     "blind_description_pure"}

\* C21: after enrich_with_blind each video has as many segments as before,
\* in the same order with the same tc_start values, and every field a
\* segment had, the three blind_ fields apart, is still there with its
\* value; no segment of the secondary pass is added.
C21_EnrichAdditive ==
    before # <<>> =>
        /\ DOMAIN all_analyses = DOMAIN before[1]
        /\ \A v \in DOMAIN all_analyses :
             LET old == before[1][v].segments
                 new == all_analyses[v].segments
             IN  /\ Len(new) = Len(old)
                 /\ \A k \in DOMAIN old :
                      \A f \in DOMAIN old[k] \ BlindFieldNames :
                          /\ f \in DOMAIN new[k]
                          /\ new[k][f] = old[k][f]

\* A video has been enriched at a segment, and its secondary pass holds a
\* segment whose tc_start no primary segment of the video has.
C21_Witness ==
    /\ before # <<>>
    /\ \E v \in DOMAIN all_blind :
         /\ \E k \in DOMAIN all_analyses[v].segments :
              BlindFieldNames \subseteq DOMAIN all_analyses[v].segments[k]
         /\ \E j \in DOMAIN all_blind[v].segments :
              /\ all_blind[v].segments[j].tc_start # ""
              /\ \A k \in DOMAIN before[1][v].segments :
                   before[1][v].segments[k].tc_start
                       # all_blind[v].segments[j].tc_start

\* The step is an iteration of phase_analysis on the video at the head of
\* the queue, up to the return of with_retry.
AnalysisIteration ==
    /\ pc = "phase2b"
    /\ step = "call"
    /\ queue # <<>>
    /\ <<pc, step, queue>>' # <<pc, step, queue>>

\* The iteration does work for the video: it prepares it or invokes its
\* analysis.
AnalysisPerformed ==
    \/ prepared' # prepared
    \/ invoked' # invoked

\* C30 as stated: on re-entry into phase 2b a video is analysed if and only
\* if its raw result is absent, whatever the ledger holds.
C30_WorkIffArtifactAbsent ==
    [][AnalysisIteration =>
          (AnalysisPerformed <=> Stem(Head(queue)) \notin DOMAIN raw_json)]_vars

\* C30, amended: a video is analysed if and only if its raw result is absent
\* and the ledger does not list the video as processed.
C30_WorkIffAbsentAndNotDone ==
    [][AnalysisIteration =>
          (AnalysisPerformed <=>
              /\ Stem(Head(queue)) \notin DOMAIN raw_json
              /\ ~is_done(Data, video_unit(Head(queue))))]_vars

\* A later run is in phase 2b and has left aside a video that the ledger
\* lists as processed and whose raw result is gone, and has analysed
\* another, which had neither.
C30_Witness ==
    /\ pc = "phase2b"
    /\ \E v, w \in Videos :
         /\ Stem(v) \notin DOMAIN raw_json
         /\ v \in at_start.done
         /\ \A i \in DOMAIN queue : queue[i] # v
         /\ chunk_unit(v, 0) \notin invoked
         /\ Stem(w) \notin at_start.raw
         /\ w \notin at_start.done
         /\ chunk_unit(w, 0) \in invoked

\* The videos of the run.
RunVideos == {videos[i] : i \in DOMAIN videos}

\* C22: in a run started with --phase N no phase of ordinal below N (1 the
\* pre-analysis, 2 the secondary pass, 3 the primary analysis) transcodes
\* or calls the remote model, and when the enrichment is reached the
\* secondary-pass files and the raw results of the skipped phases that are
\* on disk are in all_blind and all_analyses.
C22_SkippedPhasesLoadOutputs ==
    /\ \A v \in Videos :
         /\ args.phase > 1 =>
              (preanalysis_unit(v) \notin invoked
                 /\ <<"phase1", v>> \notin prepared)
         /\ args.phase > 2 =>
              (blind_unit(v, 0) \notin invoked
                 /\ <<"phase2a", v>> \notin prepared)
         /\ args.phase > 3 =>
              (chunk_unit(v, 0) \notin invoked
                 /\ <<"phase2b", v>> \notin prepared)
    /\ pc = "enrich" =>
         \A v \in RunVideos :
            /\ (args.phase > 2 /\ Stem(v) \in DOMAIN blind_files) =>
                 (v \in DOMAIN all_blind
                    /\ all_blind[v] = blind_files[Stem(v)])
            /\ (args.phase > 3 /\ Stem(v) \in DOMAIN raw_json) =>
                 (v \in DOMAIN all_analyses
                    /\ all_analyses[v] = raw_json[Stem(v)])

\* In this step with_retry, called for unit u, tries MAX_RETRIES times and
\* returns None.
Exhausts(u) ==
    /\ u \in invoked' \ invoked
    /\ u \in FailedNames([processed |-> processed', failed |-> failed'])

\* Nothing is written and no result is kept in this step.
NothingStored ==
    /\ corpus' = corpus
    /\ blind_files' = blind_files
    /\ raw_json' = raw_json
    /\ all_blind' = all_blind
    /\ all_analyses' = all_analyses

C24_NoCallOutsideWithRetry ==
    pc = "exited" => exit_code \in {"0", "1", "killed"}

\* The exit status of the process: an exception nothing catches ends a
\* Python process with status 1.
ExitStatus ==
    CASE exit_code = "0" -> 0
      [] exit_code \in {"1", "uncaught"} -> 1
      [] OTHER -> -1

\* C25: a run that ends by itself ends with status 1 exactly when the source
\* path is missing, no video is found under it, or the key is missing, and
\* with status 0 otherwise.
C25_ExitCodeOneIffPrecondition ==
    (pc = "exited" /\ exit_code # "killed") =>
        /\ ExitStatus \in {0, 1}
        /\ ExitStatus = 1 <=>
             (args.source \in {"missing", "empty"} \/ ~GEMINI_API_KEY)

\* C26: a run that a precondition check ends with sys.exit(1) has probed no
\* duration, transcoded nothing, invoked no unit operation and left the
\* ledger and the artifacts as they were.
C26_NoWorkBeforeFatalExit ==
    [][(BeginStep /\ pc' = "exited" /\ exit_code' = "1") =>
          /\ prepared' = {}
          /\ invoked' = {}
          /\ UNCHANGED <<processed, failed, disk, corpus, blind_files,
                         raw_json, synthesis_file>>]_vars

\* The list holds videos in the order of their paths.
InPathOrder(s) ==
    \A i, j \in DOMAIN s : i < j => PathBefore(s[i], s[j])

\* The units and preparations of video v.
WorkFor(v) ==
    {preanalysis_unit(v), blind_unit(v, 0), chunk_unit(v, 0),
     <<"phase1", v>>, <<"phase2a", v>>, <<"phase2b", v>>}

C28_UploadedFileGetsDelete ==
    \A f \in u_uploaded :
        (f < u_attempt \/ u_pc \in {"ended", "returned"})
            => f \in u_delete_tried

\* ================================================ claims on create_proxy

\* C29 as stated: ffmpeg is run at most once for a proxy path that was
\* never deleted.
C29_OneTranscodePerPath ==
    \A path \in ProxyPaths \ p_deleted : p_runs[path] <= 1

\* C29, amended: create_proxy returns the path its arguments decide, and
\* does not run ffmpeg when the path exists; so ffmpeg is run again for a
\* path that was never deleted only after runs that left no file.
C29_ExistingProxyReused ==
    [][p_last' # p_last =>
          LET path == proxy_path(p_last'.args[1], p_last'.args[2],
                                 p_last'.args[3])
          IN  /\ p_last'.ret \in {<<>>, <<path>>}
              /\ path \in p_files =>
                   (/\ ~p_last'.ran
                    /\ p_last'.ret = <<path>>
                    /\ p_runs' = p_runs
                    /\ p_files' = p_files)
              /\ \A q \in ProxyPaths \ {path} : p_runs'[q] = p_runs[q]]_vars

\* A proxy made by the second ffmpeg run for its path, the first having
\* left no file, has been returned by a later call without a run, and was
\* never deleted.
C29_Witness ==
    /\ p_last # <<>>
    /\ ~p_last.ran
    /\ p_last.ret # <<>>
    /\ p_last.ret[1] \in p_files \ p_deleted
    /\ p_runs[p_last.ret[1]] = 2

\* ======================================= claims on the order of the phases

\* The phases in their fixed order; main loads the raw results in the place
\* of the primary analysis when that phase is not run.
PhaseOrder == <<"phase1", "phase2a", "phase2b", "enrich", "export", "synthesis">>
PhaseNames == {PhaseOrder[k] : k \in DOMAIN PhaseOrder}
Ordinal(s) ==
    IF s = "load_raw" THEN 3
    ELSE CHOOSE k \in DOMAIN PhaseOrder : PhaseOrder[k] = s

\* Whether a run with the flags a executes the phase; main always comes to
\* the enrichment step and to the synthesis step.
Requested(p, a) ==
    CASE p = "phase1" -> a.phase <= 1
      [] p = "phase2a" -> a.phase <= 2 /\ a.blind
      [] p = "phase2b" -> a.phase <= 3
      [] p = "export" -> a.phase <= 4
      [] OTHER -> TRUE

\* No requested phase lies between the ordinals lo and hi.
NoneSkipped(lo, hi, a) ==
    \A p \in PhaseNames : (lo < Ordinal(p) /\ Ordinal(p) < hi) => ~Requested(p, a)

\* C31: main starts a phase only if the flags request it, phases start in
\* the fixed order, each at most once in a run and with the loop of the one
\* before finished, no requested phase is passed over, and the synthesis is
\* generated exactly when main comes to it with an analysis at hand and no
\* synthesis file.
C31_PhaseOrder ==
    [][/\ (pc' # pc /\ pc' \in PhaseNames) =>
             /\ Requested(pc', args')
             /\ IF pc \in PhaseNames \cup {"load_raw"}
                THEN /\ Ordinal(pc) < Ordinal(pc')
                     /\ NoneSkipped(Ordinal(pc), Ordinal(pc'), args)
                     /\ queue = <<>> /\ step = "call"
                     /\ args' = args
                ELSE /\ BeginStep
                     /\ NoneSkipped(0, Ordinal(pc'), args')
       /\ (pc' # pc /\ pc' = "load_raw") =>
             (BeginStep /\ args'.phase > 3)
       /\ (pc' = "exited" /\ exit_code' = "0" /\ ~BeginStep) =>
             pc = "synthesis"
       /\ (<<"synthesis">> \in invoked' /\ <<"synthesis">> \notin invoked) <=>
             (pc = "synthesis" /\ all_analyses # <<>> /\ ~synthesis_file)
      ]_vars

\* A run from phase 1 with the secondary pass has gone through every phase
\* to the end and has generated the synthesis.
C31_Witness ==
    /\ pc = "exited"
    /\ exit_code = "0"
    /\ args.phase = 1
    /\ args.blind
    /\ <<"phase1", "a.mp4">> \in prepared
    /\ blind_unit("b.mp4", 0) \in invoked
    /\ chunk_unit("a.mp4", 0) \in invoked
    /\ "a" \in DOMAIN blind_files
    /\ "a" \in DOMAIN raw_json
    /\ "blind_tension_visible" \in DOMAIN raw_json["a"].segments[1]
    /\ <<"synthesis">> \in invoked
    /\ synthesis_file

\* ======================================= claims on the parsing of responses

\* The parts of a text that are a JSON object or array, as <<first, last>>,
\* and those of them that lie in no other.
JsonSpans(t) ==
    {sp \in (DOMAIN t) \X (DOMAIN t) :
        /\ t[sp[1]] \in {"{", "["}
        /\ t[sp[2]] \in {"}", "]"}
        /\ json_loads(SubSeq(t, sp[1], sp[2])) # <<>>}
OuterSpans(t) ==
    {sp \in JsonSpans(t) :
        \A other \in JsonSpans(t) :
            (other[1] <= sp[1] /\ sp[2] <= other[2]) => other = sp}

\* The text is one JSON object or array with text before it or after it,
\* and that value.
OneJsonAmidText(t) ==
    /\ Cardinality(OuterSpans(t)) = 1
    /\ <<1, Len(t)>> \notin OuterSpans(t)
TheSpan(t) == CHOOSE sp \in OuterSpans(t) : TRUE
TheJson(t) == json_loads(SubSeq(t, TheSpan(t)[1], TheSpan(t)[2]))

\* The text around the value holds no bracket, and a text that opens with a
\* markdown fence has a line break before the value.
PlainAround(t) ==
    LET pre == SubSeq(t, 1, TheSpan(t)[1] - 1)
        post == SubSeq(t, TheSpan(t)[2] + 1, Len(t))
    IN  /\ \A i \in DOMAIN t :
             t[i] \in {"{", "}", "[", "]"} =>
                (TheSpan(t)[1] <= i /\ i <= TheSpan(t)[2])
        /\ (lstrip(pre) # <<>> /\ lstrip(pre)[1] = "FENCE") =>
               find(lstrip(pre), "LF") # -1

\* with_retry treats a raising _parse_json_response as a failed attempt:
\* it asks again while attempts are left, returns the first value parsed,
\* and returns None after MAX_RETRIES raises.
RaiseIsRetried ==
    /\ j_pc = "running" =>
         /\ \A k \in DOMAIN j_log : ~j_log[k].out.ok
         /\ Len(j_log) = j_attempt - 1
         /\ j_attempt <= MAX_RETRIES
    /\ j_pc = "returned" =>
         /\ \A k \in 1..(Len(j_log) - 1) : ~j_log[k].out.ok
         /\ IF Last(j_log).out.ok
            THEN j_result = <<"result", Last(j_log).out.val[1]>>
            ELSE Len(j_log) = MAX_RETRIES /\ j_result = <<"None">>

\* C32 as stated: one JSON object or array with any text around it is
\* returned; a text with no JSON in it raises, and the raise is retried.
C32_AnyTextAround ==
    /\ \A k \in DOMAIN j_log :
         LET t == j_log[k].text
         IN  /\ OneJsonAmidText(t) => j_log[k].out.val = TheJson(t)
             /\ JsonSpans(t) = {} => ~j_log[k].out.ok
    /\ RaiseIsRetried

\* C32, amended: the value is returned when the text around it holds no
\* bracket and a text opening with a fence has a line break before the
\* value; a text with no JSON in it raises, and the raise is retried.
C32_PlainTextAround ==
    /\ \A k \in DOMAIN j_log :
         LET t == j_log[k].text
         IN  /\ (OneJsonAmidText(t) /\ PlainAround(t)) =>
                   j_log[k].out.val = TheJson(t)
             /\ JsonSpans(t) = {} => ~j_log[k].out.ok
    /\ RaiseIsRetried

\* A first response without JSON raised, and the second attempt returned
\* the object that came after a word.
C32_Witness ==
    /\ j_pc = "returned"
    /\ Len(j_log) = 2
    /\ JsonSpans(j_log[1].text) = {}
    /\ j_log[1].text # <<>>
    /\ OneJsonAmidText(j_log[2].text) /\ PlainAround(j_log[2].text)
    /\ j_result = <<"result", JsonObject>>

\* ============================== claims on the primary analysis, continued

C34_OwnAnalysis ==
    \A v \in DOMAIN all_analyses : all_analyses[v].source_file = v

\* C35: phase 2b marks a video done only with the video's raw result
\* already written, and no step of a run removes a raw result; so a video
\* that phase 2b has put into processed has its raw result on disk until
\* someone removes it, also when the run is killed between the two steps.
C35_ArtifactBeforeMark ==
    [][/\ \A v \in Videos \cup TwinVideos :
            (/\ is_done([processed |-> processed', failed |-> failed'],
                        video_unit(v))
             /\ ~is_done(Data, video_unit(v))) =>
                /\ pc = "phase2b" /\ step = "mark"
                /\ Stem(v) \in DOMAIN raw_json
                /\ raw_json[Stem(v)].source_file = v
                /\ raw_json' = raw_json
       /\ pc' # "idle" => DOMAIN raw_json \subseteq DOMAIN raw_json'
       /\ (pc = "phase2b" /\ step = "store") =>
             \A v \in Videos \cup TwinVideos :
                 is_done([processed |-> processed', failed |-> failed'],
                         video_unit(v)) = is_done(Data, video_unit(v))]_vars

\* The run was killed between the two steps: the raw result of b.mp4 is
\* written and b.mp4 is not marked done, after a.mp4, which is marked done
\* and has its raw result.
C35_Witness ==
    /\ pc = "exited"
    /\ exit_code = "killed"
    /\ "b" \in DOMAIN raw_json
    /\ "b" \notin at_start.raw
    /\ ~is_done(Data, video_unit("b.mp4"))
    /\ is_done(Data, video_unit("a.mp4"))
    /\ "a" \in DOMAIN raw_json
    /\ "a" \notin at_start.raw

\* ======================================= claims on the flags of a run

\* C36: a run under --dry-run, whatever the other flags, makes no call of
\* the service, executes no phase, and leaves the ledger, in memory and in
\* its file, and the four kinds of artifact as they were.
C36_DryRunChangesNothing ==
    [][(BeginStep /\ args'.dry_run) =>
          /\ pc' = "exited"
          /\ exit_code' = "0"
          /\ invoked' = {}
          /\ <<processed', failed', disk'>> = <<processed, failed, disk>>
          /\ <<corpus', blind_files', raw_json', synthesis_file'>> =
                 <<corpus, blind_files, raw_json, synthesis_file>>]_vars

\* The names of the videos a run selected.
SelectedNames(vids) == {video_unit(vids[i]) : i \in DOMAIN vids}

\* C37: the start of a run under --retry-failed removes from the ledger
\* the failure records that bear the name of a selected video, all of
\* them; the failure records of every other name stay, in their order, and
\* so does the whole processed list.
C37_ClearsOnlySelected ==
    [][(BeginStep /\ args'.retry_failed) =>
          /\ processed' = processed
          /\ \A n \in SelectedNames(videos') : RecordsOf(failed', n) = <<>>
          /\ failed' = SelectSeq(failed,
                                 LAMBDA f : f.file \notin SelectedNames(videos'))
          /\ \A n \in FailedNames(Data) \ SelectedNames(videos') :
                 RecordsOf(failed', n) = RecordsOf(failed, n)]_vars

\* A run under --retry-failed has selected preanalysis_a.mp4 and not yet
\* called the service: the failure record of that name is gone, the one of
\* the chunk unit of a.mp4 is kept, and so is the processed list.
C37_Witness ==
    /\ args.retry_failed
    /\ videos = <<"preanalysis_a.mp4">>
    /\ pc = "phase1"
    /\ invoked = {}
    /\ video_unit("preanalysis_a.mp4") \notin FailedNames(Data)
    /\ chunk_unit("a.mp4", 0) \in FailedNames(Data)
    /\ processed # <<>>

====
